---------------------------- MODULE Spec2Model ----------------------------
(***************************************************************************)
(* Atlas Town frontend: the isometric camera, the entity registry and the  *)
(* character movement state machine.                                       *)
(*                                                                         *)
(* Numbers.  Screen coordinates and times are JavaScript doubles in the    *)
(* source.  Grid projections are integers for the tile sizes and canvas    *)
(* used here, so the camera is modelled exactly.  A tween's interpolated   *)
(* position is quantised: the remaining fraction of the tween is taken in  *)
(* steps of 1/EaseSteps and the position floored to a whole pixel.  The    *)
(* end points (progress 0 and progress >= 1) are exact.                    *)
(***************************************************************************)
EXTENDS Integers, Sequences, FiniteSets, TLC

\* ------------------------------------------------------------------------
\* Program constants
\* ------------------------------------------------------------------------
CANVAS_WIDTH == 1200
CANVAS_HEIGHT == 700
ISO_TILE_WIDTH == 64
ISO_TILE_HEIGHT == 32
ISO_TILE_HALF_WIDTH == ISO_TILE_WIDTH \div 2
ISO_TILE_HALF_HEIGHT == ISO_TILE_HEIGHT \div 2
LEGACY_TILE_SIZE == 32
GRID_WIDTH == 28
GRID_HEIGHT == 36
WALKING_FRAME_COUNT == 4
FrameDuration == 150

\* ISOMETRIC_MODE / ISOMETRIC_TYPE: the build-time projection selection.
Modes == {"diamond", "staggered", "orthogonal"}

\* ------------------------------------------------------------------------
\* Arithmetic helpers (JavaScript semantics on integers)
\* ------------------------------------------------------------------------
Max(a, b) == IF a >= b THEN a ELSE b
Min(a, b) == IF a <= b THEN a ELSE b
Abs(a) == IF a >= 0 THEN a ELSE -a

\* JavaScript's % keeps the sign of the dividend.
JsRem(a, n) == IF a >= 0 THEN a % n ELSE -((-a) % n)

\* Math.floor(a / n) for n > 0.
FloorDiv(a, n) == IF a >= 0 THEN a \div n ELSE -(((-a) + n - 1) \div n)

\* ------------------------------------------------------------------------
\* Bounds of the model
\* ------------------------------------------------------------------------
MaxObjs == 2        \* entity objects that may be constructed
MaxMoves == 2       \* moveTo calls (completion handles) per behaviour
EaseSteps == 20     \* resolution of the quantised tween progress
MaxBuilds == 2      \* build() calls per building

VARIABLES
    mode,       \* projection mode of the build
    camPos,     \* IsometricCamera._position
    probe,      \* inputs and results of the last camera query
    ents,       \* entity objects: object index -> fields
    registry,   \* EntityManager.entities: the Map's entries in insertion order
    children,   \* EntityManager.container.children (entity containers)
    handles,    \* per moveTo promise: how often its resolve was called
    addOrder,   \* history: the registered objects in the order of their add() calls
    tileMap,    \* IsometricTileMap: gridWidth, gridHeight, tileData
    containerDestroyed, \* EntityManager.container has been destroyed
    view,       \* the visuals of the character: sprites, placeholder, texture caches
    agents,     \* simulation store: agent id -> status, message, locations
    timers,     \* pending setTimeout callbacks of the store
    ws          \* SimulationWebSocket: sockets, isManualClose, reconnect timers

vars == <<mode, camPos, probe, ents, registry, children, handles, addOrder,
         tileMap, containerDestroyed, view, agents, timers, ws>>

\* ------------------------------------------------------------------------
\* IsometricCamera
\* ------------------------------------------------------------------------
ScreenBoundsWidth(m) ==
    IF m = "orthogonal" THEN GRID_WIDTH * LEGACY_TILE_SIZE
    ELSE IF m = "staggered" THEN GRID_WIDTH * ISO_TILE_WIDTH + ISO_TILE_HALF_WIDTH
    ELSE (GRID_WIDTH + GRID_HEIGHT) * ISO_TILE_HALF_WIDTH

ScreenBoundsOffsetX(m) ==
    IF m = "diamond" THEN GRID_HEIGHT * ISO_TILE_HALF_WIDTH ELSE 0

OffsetX(m, pos) ==
    IF m = "orthogonal" THEN -pos.x
    ELSE IF m = "staggered"
         THEN FloorDiv(CANVAS_WIDTH - ScreenBoundsWidth(m), 2) - pos.x
    ELSE ScreenBoundsOffsetX(m) + CANVAS_WIDTH \div 2
         - ScreenBoundsWidth(m) \div 2 - pos.x

OffsetY(m, pos) ==
    IF m = "orthogonal" THEN -pos.y
    ELSE IF m = "staggered" THEN 10 - pos.y
    ELSE -20 - pos.y

GridToScreenRaw(m, gridX, gridY) ==
    IF m = "orthogonal"
    THEN [x |-> gridX * LEGACY_TILE_SIZE, y |-> gridY * LEGACY_TILE_SIZE]
    ELSE IF m = "staggered"
    THEN LET rowOffset == JsRem(gridY, 2) * ISO_TILE_HALF_WIDTH
         IN  [x |-> gridX * ISO_TILE_WIDTH + rowOffset + ISO_TILE_HALF_WIDTH,
              y |-> gridY * ISO_TILE_HALF_HEIGHT + ISO_TILE_HALF_HEIGHT]
    ELSE [x |-> (gridX - gridY) * ISO_TILE_HALF_WIDTH,
          y |-> (gridX + gridY) * ISO_TILE_HALF_HEIGHT]

GridToScreen(m, pos, gridX, gridY) ==
    IF m = "orthogonal"
    THEN [x |-> gridX * LEGACY_TILE_SIZE + OffsetX(m, pos),
          y |-> gridY * LEGACY_TILE_SIZE + OffsetY(m, pos)]
    ELSE IF m = "staggered"
    THEN LET rowOffset == JsRem(gridY, 2) * ISO_TILE_HALF_WIDTH
         IN  [x |-> gridX * ISO_TILE_WIDTH + rowOffset + ISO_TILE_HALF_WIDTH
                    + OffsetX(m, pos),
              y |-> gridY * ISO_TILE_HALF_HEIGHT + ISO_TILE_HALF_HEIGHT
                    + OffsetY(m, pos)]
    ELSE [x |-> (gridX - gridY) * ISO_TILE_HALF_WIDTH + OffsetX(m, pos),
          y |-> (gridX + gridY) * ISO_TILE_HALF_HEIGHT + OffsetY(m, pos)]

\* A screenToGrid whose staggered row forgets the half tile height that
\* gridToScreen adds to a row's y.
ScreenToGrid_NoHalf(m, pos, screenX, screenY) ==
    IF m = "orthogonal"
    THEN [gridX |-> FloorDiv(screenX - OffsetX(m, pos), LEGACY_TILE_SIZE),
          gridY |-> FloorDiv(screenY - OffsetY(m, pos), LEGACY_TILE_SIZE)]
    ELSE LET relX == screenX - OffsetX(m, pos)
             relY == screenY - OffsetY(m, pos)
         IN  IF m = "staggered"
             THEN LET approxY == FloorDiv(relY, ISO_TILE_HALF_HEIGHT)
                      gridY == Max(0, approxY)
                      rowOffset == JsRem(gridY, 2) * ISO_TILE_HALF_WIDTH
                      gridX == FloorDiv(relX - rowOffset - ISO_TILE_HALF_WIDTH,
                                        ISO_TILE_WIDTH)
                  IN  [gridX |-> Max(0, gridX), gridY |-> gridY]
             ELSE [gridX |-> FloorDiv(relX * ISO_TILE_HALF_HEIGHT
                                      + relY * ISO_TILE_HALF_WIDTH,
                                      2 * ISO_TILE_HALF_WIDTH * ISO_TILE_HALF_HEIGHT),
                   gridY |-> FloorDiv(relY * ISO_TILE_HALF_WIDTH
                                      - relX * ISO_TILE_HALF_HEIGHT,
                                      2 * ISO_TILE_HALF_WIDTH * ISO_TILE_HALF_HEIGHT)]

\* In diamond mode (relX/halfW + relY/halfH)/2 is (relX*halfH + relY*halfW)
\* over 2*halfW*halfH; the floor of the quotient is taken exactly.
ScreenToGrid(m, pos, screenX, screenY) ==
    IF m = "orthogonal"
    THEN [gridX |-> FloorDiv(screenX - OffsetX(m, pos), LEGACY_TILE_SIZE),
          gridY |-> FloorDiv(screenY - OffsetY(m, pos), LEGACY_TILE_SIZE)]
    ELSE LET relX == screenX - OffsetX(m, pos)
             relY == screenY - OffsetY(m, pos)
         IN  IF m = "staggered"
             THEN LET approxY == FloorDiv(relY - ISO_TILE_HALF_HEIGHT,
                                          ISO_TILE_HALF_HEIGHT)
                      gridY == Max(0, approxY)
                      rowOffset == JsRem(gridY, 2) * ISO_TILE_HALF_WIDTH
                      gridX == FloorDiv(relX - rowOffset - ISO_TILE_HALF_WIDTH,
                                        ISO_TILE_WIDTH)
                  IN  [gridX |-> Max(0, gridX), gridY |-> gridY]
             ELSE [gridX |-> FloorDiv(relX * ISO_TILE_HALF_HEIGHT
                                      + relY * ISO_TILE_HALF_WIDTH,
                                      2 * ISO_TILE_HALF_WIDTH * ISO_TILE_HALF_HEIGHT),
                   gridY |-> FloorDiv(relY * ISO_TILE_HALF_WIDTH
                                      - relX * ISO_TILE_HALF_HEIGHT,
                                      2 * ISO_TILE_HALF_WIDTH * ISO_TILE_HALF_HEIGHT)]

CalculateDepth(m, gridX, gridY) ==
    IF m = "orthogonal" THEN gridY ELSE gridX + gridY

CalculateDepthFromScreenY(screenY) == screenY

IsValidGridPosition(gridX, gridY) ==
    /\ gridX >= 0 /\ gridX < GRID_WIDTH
    /\ gridY >= 0 /\ gridY < GRID_HEIGHT

\* lib/pixi/isometric.ts: the free functions (no camera offsets; the module's
\* own ISOMETRIC_MODE flag selects diamond or orthogonal).
LegacyGridToScreen(iso, gridX, gridY) ==
    IF ~iso
    THEN [x |-> gridX * LEGACY_TILE_SIZE, y |-> gridY * LEGACY_TILE_SIZE]
    ELSE [x |-> (gridX - gridY) * ISO_TILE_HALF_WIDTH,
          y |-> (gridX + gridY) * ISO_TILE_HALF_HEIGHT]

LegacyScreenToGrid(iso, screenX, screenY) ==
    IF ~iso
    THEN [gridX |-> FloorDiv(screenX, LEGACY_TILE_SIZE),
          gridY |-> FloorDiv(screenY, LEGACY_TILE_SIZE)]
    ELSE [gridX |-> FloorDiv(screenX * ISO_TILE_HALF_HEIGHT
                             + screenY * ISO_TILE_HALF_WIDTH,
                             2 * ISO_TILE_HALF_WIDTH * ISO_TILE_HALF_HEIGHT),
          gridY |-> FloorDiv(screenY * ISO_TILE_HALF_WIDTH
                             - screenX * ISO_TILE_HALF_HEIGHT,
                             2 * ISO_TILE_HALF_WIDTH * ISO_TILE_HALF_HEIGHT)]

\* ------------------------------------------------------------------------
\* IsometricEntity, Building, Character: fields of one entity object
\* ------------------------------------------------------------------------
Ids == {"a", "b"}
States == {"idle", "walking", "thinking", "speaking"}
DIRECTIONS_4 == {"south", "north", "east", "west"}
DIRECTIONS_8 == {"south", "south-west", "west", "north-west",
                 "north", "north-east", "east", "south-east"}
Undefined == -1     \* an omitted duration argument
NoHandle == 0       \* movement.resolve = null
Discarded == -2     \* the resolve function of a promise the caller drops

Iso(m) == m # "orthogonal"

NoMovement ==
    [active |-> FALSE, startX |-> 0, startY |-> 0, targetX |-> 0, targetY |-> 0,
     duration |-> 0, elapsed |-> 0, resolve |-> NoHandle]

NoEntity ==
    [cls |-> "none", id |-> "a", gridX |-> 0, gridY |-> 0, x |-> 0, y |-> 0,
     zIndex |-> 0, destroyed |-> FALSE, state |-> "idle", direction |-> "south",
     movement |-> NoMovement, currentWalkFrame |-> 0, walkFrameTime |-> 0,
     usingSpriteSheets |-> FALSE, ticking |-> FALSE,
     fromGrid |-> FALSE,     \* history: updatePosition wrote the screen position
     builds |-> 0]           \* history: calls of build() since that position

\* IsometricEntity.updateDepth
UpdateDepth(m, e) ==
    [e EXCEPT !.zIndex = IF Iso(m) THEN e.y + ISO_TILE_HEIGHT ELSE e.y]

\* IsometricEntity.depth (getter)
Depth(e) == CalculateDepthFromScreenY(e.y)

\* An updatePosition that does not recompute the depth.
UpdatePosition_NoDepth(m, pos, e) ==
    LET screenPos == GridToScreen(m, pos, e.gridX, e.gridY)
        yOff == IF e.cls = "Character" THEN ISO_TILE_HEIGHT \div 2 ELSE 0
    IN  [e EXCEPT !.x = screenPos.x, !.y = screenPos.y + yOff,
                  !.fromGrid = TRUE, !.builds = 0]

\* updatePosition: IsometricEntity's, and Character's override which adds half
\* a tile height in every mode.
UpdatePosition(m, pos, e) ==
    LET screenPos == GridToScreen(m, pos, e.gridX, e.gridY)
        yOff == IF e.cls = "Character" THEN ISO_TILE_HEIGHT \div 2 ELSE 0
    IN  UpdateDepth(m, [e EXCEPT !.x = screenPos.x, !.y = screenPos.y + yOff,
                                 !.fromGrid = TRUE, !.builds = 0])

\* IsometricEntity.gridX / gridY setters and setGridPosition
SetGridX(m, pos, e, v) == UpdatePosition(m, pos, [e EXCEPT !.gridX = v])
SetGridY(m, pos, e, v) == UpdatePosition(m, pos, [e EXCEPT !.gridY = v])
SetGridPosition(m, pos, e, gx, gy) ==
    UpdatePosition(m, pos, [e EXCEPT !.gridX = gx, !.gridY = gy])

\* IsometricEntity.setScreenPosition and Character.teleportTo
SetScreenPosition(m, e, x, y) ==
    UpdateDepth(m, [e EXCEPT !.x = x, !.y = y, !.fromGrid = FALSE,
                             !.builds = 0])

TeleportToGrid(m, pos, e, gx, gy) == SetGridPosition(m, pos, e, gx, gy)

TeleportToScreen(m, pos, e, x, y) ==
    LET gridPos == ScreenToGrid(m, pos, x, y)
    IN  UpdateDepth(m, [e EXCEPT !.x = x, !.y = y, !.fromGrid = FALSE,
                                 !.builds = 0,
                                 !.gridX = gridPos.gridX, !.gridY = gridPos.gridY])

\* Building.adjustPosition: the last step of Building.build()
AdjustPosition(m, e) ==
    IF Iso(m) THEN [e EXCEPT !.y = e.y + ISO_TILE_HEIGHT \div 2]
    ELSE e

\* Building.build(): the visuals are rebuilt, then the position is adjusted.
BuildBuilding(m, e) == AdjustPosition(m, [e EXCEPT !.builds = e.builds + 1])

\* Constructors (IsometricEntity's constructor ends with updatePosition()).
NewBuilding(m, pos, id, gx, gy) ==
    UpdatePosition(m, pos,
        [NoEntity EXCEPT !.cls = "Building", !.id = id, !.gridX = gx, !.gridY = gy])

NewCharacter(m, pos, id, gx, gy) ==
    UpdatePosition(m, pos,
        [NoEntity EXCEPT !.cls = "Character", !.id = id, !.gridX = gx,
                         !.gridY = gy, !.ticking = TRUE])

\* ------------------------------------------------------------------------
\* Character: direction, tween and animation
\* ------------------------------------------------------------------------
\* getDirectionFromDelta for (dx, dy) # (0, 0): round(atan2(dy, dx) / 45deg) mod 8
\* with east = 0 and south = 90 degrees.  The angle to the x axis is below 22.5
\* degrees iff |dy| < (sqrt(2) - 1)|dx|, i.e. iff (|dx| + |dy|)^2 < 2 dx^2; a tie
\* needs sqrt(2) rational and does not occur.
GetDirectionFromDelta(dx, dy) ==
    LET ax == Abs(dx)
        ay == Abs(dy)
        s == (ax + ay) * (ax + ay)
    IN  IF s < 2 * ax * ax THEN (IF dx > 0 THEN "east" ELSE "west")
        ELSE IF s < 2 * ay * ay THEN (IF dy > 0 THEN "south" ELSE "north")
        ELSE IF dx > 0 THEN (IF dy > 0 THEN "south-east" ELSE "north-east")
        ELSE (IF dy > 0 THEN "south-west" ELSE "north-west")

\* A calculateDirection that turns east or west on a diagonal.
CalculateDirection_AxisTie(m, e, dx, dy) ==
    IF dx = 0 /\ dy = 0 THEN e.direction
    ELSE IF Iso(m) THEN GetDirectionFromDelta(dx, dy)
    ELSE IF Abs(dx) >= Abs(dy) THEN (IF dx > 0 THEN "east" ELSE "west")
    ELSE (IF dy > 0 THEN "south" ELSE "north")

\* AnimatedCharacter.calculateDirection: the dominant axis in every mode
AnimatedCalculateDirection(e, dx, dy) ==
    IF dx = 0 /\ dy = 0 THEN e.direction
    ELSE IF Abs(dx) > Abs(dy) THEN (IF dx > 0 THEN "east" ELSE "west")
    ELSE (IF dy > 0 THEN "south" ELSE "north")

\* Character.calculateDirection
CalculateDirection(m, e, dx, dy) ==
    IF dx = 0 /\ dy = 0 THEN e.direction
    ELSE IF Iso(m) THEN GetDirectionFromDelta(dx, dy)
    ELSE IF Abs(dx) > Abs(dy) THEN (IF dx > 0 THEN "east" ELSE "west")
    ELSE (IF dy > 0 THEN "south" ELSE "north")

\* An automatic duration without the floor of 500 ms.
AutoDuration_NoFloor(dx, dy) ==
    LET q == 9 * (dx * dx + dy * dy)
    IN  IF q >= 2000 * 2000 THEN 2000
        ELSE CHOOSE r \in 0..2000 : (r = 0 \/ (r - 1) * (r - 1) < q) /\ q <= r * r

\* min(2000, max(500, distance * 3)) in whole milliseconds, rounded up: with
\* whole-millisecond ticks, elapsed >= duration is decided exactly.
AutoDuration(dx, dy) ==
    LET q == 9 * (dx * dx + dy * dy)
    IN  IF q <= 500 * 500 THEN 500
        ELSE IF q >= 2000 * 2000 THEN 2000
        ELSE CHOOSE r \in 501..2000 : (r - 1) * (r - 1) < q /\ q <= r * r

\* A moveTo that keeps the start of a tween it supersedes.
MoveToMovement_KeepStart(e, x, y, duration, h) ==
    [active |-> TRUE,
     startX |-> IF e.movement.active THEN e.movement.startX ELSE e.x,
     startY |-> IF e.movement.active THEN e.movement.startY ELSE e.y,
     targetX |-> x, targetY |-> y,
     duration |-> IF duration = Undefined THEN AutoDuration(x - e.x, y - e.y)
                  ELSE duration,
     elapsed |-> 0, resolve |-> h]

\* Character.moveTo; h is the resolve function of the promise it returns.
MoveToMovement(e, x, y, duration, h) ==
    [active |-> TRUE, startX |-> e.x, startY |-> e.y, targetX |-> x, targetY |-> y,
     duration |-> IF duration = Undefined THEN AutoDuration(x - e.x, y - e.y)
                  ELSE duration,
     elapsed |-> 0, resolve |-> h]

MoveTo(e, x, y, duration, h) ==
    [e EXCEPT !.movement = MoveToMovement(e, x, y, duration, h),
              !.state = "walking"]

\* Character.moveToGrid
MoveToGrid(m, pos, e, gx, gy, duration, h) ==
    LET screenPos == GridToScreen(m, pos, gx, gy)
    IN  MoveTo(e, screenPos.x, screenPos.y + ISO_TILE_HEIGHT \div 2, duration, h)

\* A state setter that stops the tween.
SetState_StopsTween(e, v) == [e EXCEPT !.state = v, !.movement.active = FALSE]

\* Character.state and Character.direction setters
SetState(e, v) == [e EXCEPT !.state = v]
SetDirection(e, v) == [e EXCEPT !.direction = v]

\* start + (target - start) * eased with eased = 1 - (1 - progress)^3 and
\* progress = min(1, elapsed / duration), for duration > 0.
Eased(start, target, elapsed, duration) ==
    LET remaining == duration - Min(elapsed, duration)
        r == (remaining * EaseSteps) \div duration
        cube == EaseSteps * EaseSteps * EaseSteps
    IN  start + FloorDiv((target - start) * (cube - r * r * r), cube)

\* Character.updateWalkingAnimation
UpdateWalkingAnimation(e, deltaMs) ==
    IF ~e.usingSpriteSheets \/ e.state # "walking" THEN e
    ELSE IF e.walkFrameTime + deltaMs >= FrameDuration
         THEN [e EXCEPT !.walkFrameTime = 0,
                        !.currentWalkFrame =
                            (e.currentWalkFrame + 1) % WALKING_FRAME_COUNT]
         ELSE [e EXCEPT !.walkFrameTime = e.walkFrameTime + deltaMs]

\* A completion branch that leaves the state as it is.
CompleteMovement_KeepState(e) ==
    [e EXCEPT !.movement.active = FALSE, !.movement.resolve = NoHandle,
              !.currentWalkFrame = 0, !.walkFrameTime = 0]

\* The completion branch of Character.updateMovement (progress >= 1).
CompleteMovement(e) ==
    [e EXCEPT !.movement.active = FALSE, !.movement.resolve = NoHandle,
              !.state = "idle", !.currentWalkFrame = 0, !.walkFrameTime = 0]

\* An update that calls resolve on every tick of the tween.
CalledResolve_Always(e, done) == e.movement.resolve

\* The end of the completion branch: resolve is called if it is set.  The
\* result is the handle resolved by this update, or NoHandle.
CalledResolve(e, done) ==
    IF done THEN e.movement.resolve ELSE NoHandle

\* A tween that selects the direction on its first tick only.
UpdateMovement_DirectionOnce(m, e, deltaMs) ==
    LET mv == e.movement
        elapsed == mv.elapsed + deltaMs
        e1 == [e EXCEPT !.movement.elapsed = elapsed, !.fromGrid = FALSE,
                        !.x = Eased(mv.startX, mv.targetX, elapsed, mv.duration),
                        !.y = Eased(mv.startY, mv.targetY, elapsed, mv.duration)]
        e2 == UpdateDepth(m, e1)
        e3 == IF mv.elapsed = 0
              THEN [e2 EXCEPT !.direction =
                       CalculateDirection(m, e2, mv.targetX - mv.startX,
                                          mv.targetY - mv.startY)]
              ELSE e2
        e4 == UpdateWalkingAnimation(e3, deltaMs)
        done == elapsed >= mv.duration
    IN  [e |-> IF done THEN CompleteMovement(e4) ELSE e4,
         resolved |-> CalledResolve(e4, done)]

\* Character.updateMovement: the character after the update, and the handle
\* the update resolved.
UpdateMovement(m, e, deltaMs) ==
    LET mv == e.movement
        elapsed == mv.elapsed + deltaMs
        e1 == [e EXCEPT !.movement.elapsed = elapsed, !.fromGrid = FALSE,
                        !.x = Eased(mv.startX, mv.targetX, elapsed, mv.duration),
                        !.y = Eased(mv.startY, mv.targetY, elapsed, mv.duration)]
        e2 == UpdateDepth(m, e1)
        e3 == [e2 EXCEPT !.direction =
                   CalculateDirection(m, e2, mv.targetX - mv.startX,
                                      mv.targetY - mv.startY)]
        e4 == UpdateWalkingAnimation(e3, deltaMs)
        done == elapsed >= mv.duration
    IN  [e |-> IF done THEN CompleteMovement(e4) ELSE e4,
         resolved |-> CalledResolve(e4, done)]

\* An update that advances the tween only while the state is walking.
Update_WalkingOnly(m, e, deltaMs) ==
    IF e.movement.active /\ e.state = "walking" THEN UpdateMovement(m, e, deltaMs)
    ELSE [e |-> e, resolved |-> NoHandle]

\* Character.update: the ticker callback.  (applyAnimations only places the
\* sprite container inside the entity and is left out, with animationTime.)
Update(m, e, deltaMs) ==
    IF e.movement.active THEN UpdateMovement(m, e, deltaMs)
    ELSE [e |-> e, resolved |-> NoHandle]

\* Character.destroy: the ticker callback is removed, the container destroyed.
DestroyCharacter(e) == [e EXCEPT !.ticking = FALSE, !.destroyed = TRUE]

\* ------------------------------------------------------------------------
\* EntityManager
\* ------------------------------------------------------------------------
Objs == 1..MaxObjs

RECURSIVE Without(_, _)
\* The sequence s without the element o.
Without(s, o) ==
    IF s = << >> THEN << >>
    ELSE IF Head(s) = o THEN Without(Tail(s), o)
    ELSE <<Head(s)>> \o Without(Tail(s), o)

SeqSet(s) == {s[i] : i \in 1..Len(s)}

\* Container.addChild / removeChild of PixiJS on the manager's container.
AddChild(ch, o) == Append(Without(ch, o), o)
RemoveChild(ch, o) == Without(ch, o)

\* The registry's entry for an id: the object registered under it, or 0.
Get(reg, es, id) ==
    IF \E i \in 1..Len(reg) : es[reg[i]].id = id
    THEN reg[CHOOSE i \in 1..Len(reg) : es[reg[i]].id = id]
    ELSE 0

Has(reg, es, id) == Get(reg, es, id) # 0

\* A remove that leaves the entity's container among the children.
RemoveFrom_KeepChild(reg, ch, es, id) ==
    LET o == Get(reg, es, id)
    IN  IF o # 0 THEN [registry |-> Without(reg, o), children |-> ch]
        ELSE [registry |-> reg, children |-> ch]

\* EntityManager.remove: the registry and the children afterwards.
RemoveFrom(reg, ch, es, id) ==
    LET o == Get(reg, es, id)
    IN  IF o # 0 THEN [registry |-> Without(reg, o), children |-> RemoveChild(ch, o)]
        ELSE [registry |-> reg, children |-> ch]

\* Map.set(entity.id, entity): a new key is appended, the value of an existing
\* key is replaced where it stands.
MapSet(reg, es, o) ==
    IF Has(reg, es, es[o].id)
    THEN [i \in 1..Len(reg) |-> IF es[reg[i]].id = es[o].id THEN o ELSE reg[i]]
    ELSE Append(reg, o)

\* An add that does not remove the entity registered under the same id.
AddTo_NoRemove(reg, ch, es, o) ==
    [registry |-> MapSet(reg, es, o), children |-> AddChild(ch, o)]

\* EntityManager.add: an entity registered under the same id is removed first.
AddTo(reg, ch, es, o) ==
    LET r == IF Has(reg, es, es[o].id) THEN RemoveFrom(reg, ch, es, es[o].id)
             ELSE [registry |-> reg, children |-> ch]
    IN  [registry |-> MapSet(r.registry, es, o),
         children |-> AddChild(r.children, o)]

\* EntityManager.count
Count(reg) == Len(reg)

\* The squared grid distance; Math.sqrt is strictly increasing on these
\* integers, so distances compare as their squares do.
Dist2(e, gx, gy) ==
    (e.gridX - gx) * (e.gridX - gx) + (e.gridY - gy) * (e.gridY - gy)

RECURSIVE NearestFrom_Last(_, _, _, _, _)
\* A getNearest loop that lets a later entity at the same distance win.
NearestFrom_Last(reg, es, i, best, q) ==
    IF i > Len(reg) THEN best
    ELSE IF best = 0 \/ Dist2(es[reg[i]], q[1], q[2]) <= Dist2(es[best], q[1], q[2])
         THEN NearestFrom_Last(reg, es, i + 1, reg[i], q)
         ELSE NearestFrom_Last(reg, es, i + 1, best, q)

RECURSIVE NearestFrom(_, _, _, _, _)
\* The forEach loop of getNearest over the entries from index i on, with the
\* nearest entity so far (0: none yet, nearestDistance = Infinity).
NearestFrom(reg, es, i, best, q) ==
    IF i > Len(reg) THEN best
    ELSE IF best = 0 \/ Dist2(es[reg[i]], q[1], q[2]) < Dist2(es[best], q[1], q[2])
         THEN NearestFrom(reg, es, i + 1, reg[i], q)
         ELSE NearestFrom(reg, es, i + 1, best, q)

\* EntityManager.getNearest: the object found, or 0 for undefined.
GetNearest(reg, es, gx, gy) == NearestFrom(reg, es, 1, 0, <<gx, gy>>)

RECURSIVE InsertByZ(_, _, _)
\* o inserted into the zIndex-sorted sequence s, behind entries of equal zIndex.
InsertByZ(s, es, o) ==
    IF s = << >> THEN <<o>>
    ELSE IF es[Head(s)].zIndex <= es[o].zIndex
         THEN <<Head(s)>> \o InsertByZ(Tail(s), es, o)
         ELSE <<o>> \o s

RECURSIVE SortByZ(_, _)
\* Container.sortChildren: a stable sort of the children by zIndex.
SortByZ(ch, es) ==
    IF ch = << >> THEN << >>
    ELSE InsertByZ(SortByZ(SubSeq(ch, 1, Len(ch) - 1), es), es, ch[Len(ch)])

\* ------------------------------------------------------------------------
\* Camera specification: the projection functions applied to drawn inputs
\* ------------------------------------------------------------------------
PanLimit == 40      \* the camera is panned within this distance of the origin

GridColumns == 0..(GRID_WIDTH - 1)
GridRows == 0..(GRID_HEIGHT - 1)
PanDeltas == {<<40, 0>>, <<-40, 0>>, <<0, 24>>, <<0, -24>>}
CenterTargets == {<<0, 0>>, <<GRID_WIDTH - 1, GRID_HEIGHT - 1>>}

\* No visuals have been built; have is what the texture loader held at the
\* last load of the caches.
NoView == [sprites |-> 0, placeholders |-> 0, sprite |-> 0, texture |-> "none",
           rotationTextures |-> << >>, walkingFrames |-> << >>,
           have |-> [rot |-> {}, walk |-> {}]]

\* No store exists; the WebSocket client has created no socket.  sockets
\* holds the readyState of every WebSocket created, current is this.ws (0 for
\* null), reconnectTimers counts the pending setTimeout(connect) callbacks and
\* disconnected tells that disconnect() was called and connect() has not been
\* called by the application since (history).
NoAgents == << >>
NoSocket == [sockets |-> << >>, current |-> 0, isManualClose |-> FALSE,
             reconnectAttempts |-> 0, reconnectTimers |-> 0,
             disconnected |-> FALSE]

\* No tile map has been constructed.
NoTileMap == [gridWidth |-> 0, gridHeight |-> 0, tileData |-> << >>,
              written |-> {}]

\* The last query: one grid row, and per column of it the grid positions the
\* inverse projections gave back for the projected tile centre.
NoProbe == [asked |-> FALSE, gridY |-> 0,
            back |-> [gx \in GridColumns |-> [gridX |-> 0, gridY |-> 0]],
            legacyBack |-> [gx \in GridColumns |-> [gridX |-> 0, gridY |-> 0]]]

InitCommon ==
    /\ camPos = [x |-> 0, y |-> 0]
    /\ probe = NoProbe
    /\ registry = << >>
    /\ children = << >>
    /\ handles = << >>
    /\ addOrder = << >>
    /\ tileMap = NoTileMap
    /\ containerDestroyed = FALSE
    /\ view = NoView /\ agents = NoAgents /\ timers = << >> /\ ws = NoSocket

InitCam ==
    /\ InitCommon
    /\ mode \in Modes
    /\ ents = [o \in 1..MaxObjs |-> NoEntity]

\* camera.screenToGrid(camera.gridToScreen(gx, gy)) for every column gx of row
\* gy, and the same through the free functions of lib/pixi/isometric.ts.
RoundTrip(gy) ==
    /\ LET screen == [gx \in GridColumns |-> GridToScreen(mode, camPos, gx, gy)]
           legacy == [gx \in GridColumns |->
                         LegacyGridToScreen(Iso(mode), gx, gy)]
       IN  probe' = [asked |-> TRUE, gridY |-> gy,
                     back |-> [gx \in GridColumns |->
                         ScreenToGrid(mode, camPos, screen[gx].x, screen[gx].y)],
                     legacyBack |-> [gx \in GridColumns |->
                         LegacyScreenToGrid(Iso(mode), legacy[gx].x, legacy[gx].y)]]
    /\ UNCHANGED <<view, agents, timers, ws, containerDestroyed, tileMap, mode, camPos, ents, registry, children, handles, addOrder>>

\* IsometricCamera.pan
Pan(dx, dy) ==
    /\ Abs(camPos.x + dx) <= PanLimit
    /\ Abs(camPos.y + dy) <= PanLimit
    /\ camPos' = [x |-> camPos.x + dx, y |-> camPos.y + dy]
    /\ UNCHANGED <<view, agents, timers, ws, containerDestroyed, tileMap, mode, probe, ents, registry, children, handles, addOrder>>

\* IsometricCamera.centerOn
CenterOn(gx, gy) ==
    /\ LET screenPos == GridToScreenRaw(mode, gx, gy)
       IN  camPos' = [x |-> screenPos.x - CANVAS_WIDTH \div 2,
                      y |-> screenPos.y - CANVAS_HEIGHT \div 2]
    /\ UNCHANGED <<view, agents, timers, ws, containerDestroyed, tileMap, mode, probe, ents, registry, children, handles, addOrder>>

NextCam ==
    \/ \E gy \in GridRows : RoundTrip(gy)
    \/ \E d \in PanDeltas : Pan(d[1], d[2])
    \/ \E p \in CenterTargets : CenterOn(p[1], p[2])

SpecCam == InitCam /\ [][NextCam]_vars

\* C1: in every projection mode and for every integer grid position inside
\* the grid, screenToGrid(gridToScreen(gx, gy)) is (gx, gy) again, through the
\* camera and through the free functions.
C1_RoundTrip ==
    probe.asked =>
        \A gx \in GridColumns :
            /\ probe.back[gx] = [gridX |-> gx, gridY |-> probe.gridY]
            /\ probe.legacyBack[gx] = [gridX |-> gx, gridY |-> probe.gridY]

C1_Witness ==
    /\ probe.asked
    /\ probe.gridY = GRID_HEIGHT - 1
    /\ camPos.x # 0
    /\ probe.back[GRID_WIDTH - 1] =
           [gridX |-> GRID_WIDTH - 1, gridY |-> GRID_HEIGHT - 1]

\* ------------------------------------------------------------------------
\* Character specification: one character driven by its public API and the
\* shared ticker
\* ------------------------------------------------------------------------
\* The isometric build (8 directions, zIndex = y + tile height) and the legacy
\* build (4 directions, zIndex = y).
CharModes == {"staggered", "orthogonal"}
StartGrids == {<<2, 3>>}
ScreenTargets == {<<0, 90>>, <<900, 90>>}
GridTargets == {<<5, 8>>}
Durations == {Undefined, 300}
DeltaMs == {0, 250}

Hero == 1       \* the object index of the character

InitChar ==
    /\ InitCommon
    /\ mode \in CharModes
    /\ \E g \in StartGrids, sheets \in BOOLEAN :
          ents = [o \in 1..MaxObjs |->
                    IF o = Hero
                    THEN [NewCharacter(mode, camPos, "a", g[1], g[2])
                             EXCEPT !.usingSpriteSheets = sheets]
                    ELSE NoEntity]

\* character.moveTo(x, y, duration?)
CharMoveTo(x, y, duration) ==
    /\ ~ents[Hero].destroyed
    /\ Len(handles) < MaxMoves
    /\ ents' = [ents EXCEPT ![Hero] = MoveTo(@, x, y, duration, Len(handles) + 1)]
    /\ handles' = Append(handles, 0)
    /\ UNCHANGED <<view, agents, timers, ws, containerDestroyed, tileMap, mode, camPos, probe, registry, children, addOrder>>

\* character.moveToGrid(gridX, gridY, duration?)
CharMoveToGrid(gx, gy, duration) ==
    /\ ~ents[Hero].destroyed
    /\ Len(handles) < MaxMoves
    /\ ents' = [ents EXCEPT ![Hero] =
                   MoveToGrid(mode, camPos, @, gx, gy, duration, Len(handles) + 1)]
    /\ handles' = Append(handles, 0)
    /\ UNCHANGED <<view, agents, timers, ws, containerDestroyed, tileMap, mode, camPos, probe, registry, children, addOrder>>

\* character.state = v
CharSetState(v) ==
    /\ ~ents[Hero].destroyed
    /\ ents' = [ents EXCEPT ![Hero] = SetState(@, v)]
    /\ UNCHANGED <<view, agents, timers, ws, containerDestroyed, tileMap, mode, camPos, probe, registry, children, handles, addOrder>>

\* One firing of the ticker with deltaMS = dt: the character's update callback.
CharTick(dt) ==
    /\ ents[Hero].ticking
    /\ LET u == Update(mode, ents[Hero], dt)
       IN  /\ ents' = [ents EXCEPT ![Hero] = u.e]
           /\ handles' = IF u.resolved = NoHandle THEN handles
                          ELSE [handles EXCEPT ![u.resolved] = @ + 1]
    /\ UNCHANGED <<view, agents, timers, ws, containerDestroyed, tileMap, mode, camPos, probe, registry, children, addOrder>>

\* character.destroy()
CharDestroy ==
    /\ ~ents[Hero].destroyed
    /\ ents' = [ents EXCEPT ![Hero] = DestroyCharacter(@)]
    /\ UNCHANGED <<view, agents, timers, ws, containerDestroyed, tileMap, mode, camPos, probe, registry, children, handles, addOrder>>

NextChar ==
    \/ \E t \in ScreenTargets, d \in Durations : CharMoveTo(t[1], t[2], d)
    \/ \E g \in GridTargets, d \in Durations : CharMoveToGrid(g[1], g[2], d)
    \/ \E v \in States : CharSetState(v)
    \/ \E dt \in DeltaMs : CharTick(dt)
    \/ CharDestroy

SpecChar == InitChar /\ [][NextChar]_vars

\* The liveness specification: the same operations with coarser ticks, in the
\* configuration the repository builds (staggered projection).
LiveDeltaMs == {0, 500}

NextCharLive ==
    \/ \E t \in ScreenTargets, d \in Durations : CharMoveTo(t[1], t[2], d)
    \/ \E g \in GridTargets, d \in Durations : CharMoveToGrid(g[1], g[2], d)
    \/ \E v \in States : CharSetState(v)
    \/ \E dt \in LiveDeltaMs : CharTick(dt)
    \/ CharDestroy

\* The ticker fires on every animation frame for as long as the application
\* runs, and frames take time.
TickPositive == \E dt \in LiveDeltaMs \ {0} : CharTick(dt)

InitCharLive == InitChar /\ mode = "staggered"

SpecCharLive == InitCharLive /\ [][NextCharLive]_vars /\ WF_vars(TickPositive)

hero == ents[Hero]

\* The tween of the hero completes in this step.
Completes ==
    /\ hero.movement.active
    /\ ents'[Hero].movement.elapsed >= ents'[Hero].movement.duration

\* C2: the movement tween is active if and only if the animation state is
\* walking.
C2_ActiveIffWalking ==
    hero.movement.active <=> (hero.state = "walking")

\* C3: a completion handle is resolved in the tick in which its tween
\* completes, and its resolve is never called a second time: no step raises a
\* handle's count above 1, and a count changes only in a completing tick of the
\* tween that carries the handle.
C3_ResolvedOnce ==
    [][ /\ \A h \in 1..Len(handles') : handles'[h] <= 1
        /\ \A h \in 1..Len(handles) :
              handles'[h] # handles[h] =>
                  (Completes /\ hero.movement.resolve = h /\ handles'[h] = 1)
        /\ Completes => handles'[hero.movement.resolve] = 1 ]_vars

C3_Witness ==
    /\ Len(handles) = 2
    /\ handles[1] = 1
    /\ handles[2] = 1
    /\ hero.state = "thinking"

\* C4: in the tick in which an active tween's progress reaches 1, the screen
\* position becomes the tween target, the tween becomes inactive, the state
\* becomes idle and the walking frame index 0.
C4_Arrival ==
    [][ Completes =>
          /\ ents'[Hero].x = hero.movement.targetX
          /\ ents'[Hero].y = hero.movement.targetY
          /\ ~ents'[Hero].movement.active
          /\ ents'[Hero].state = "idle"
          /\ ents'[Hero].currentWalkFrame = 0 ]_vars

C4_Witness ==
    /\ Len(handles) = 1
    /\ handles[1] = 1
    /\ ~hero.movement.active
    /\ hero.movement.elapsed >= hero.movement.duration
    /\ hero.x = 900 /\ hero.y = 90
    /\ hero.state = "idle"
    /\ hero.usingSpriteSheets

\* Handle h belongs to the tween in progress.
Pending(h) ==
    /\ Len(handles) = h
    /\ hero.movement.active
    /\ ~hero.destroyed

\* The tween of handle h has arrived: the handle is resolved and the
\* character idle at the target.
Arrived(h) ==
    /\ Len(handles) = h
    /\ handles[h] = 1
    /\ ~hero.movement.active
    /\ hero.state = "idle"
    /\ hero.x = hero.movement.targetX
    /\ hero.y = hero.movement.targetY

\* C5: a moveTo that is not superseded by a later moveTo, on a character that
\* is not destroyed, eventually resolves its handle with the character idle
\* at the target, if ticks with positive elapsed time keep occurring.
C5_EventuallyArrives ==
    \A h \in 1..MaxMoves :
        Pending(h) ~> (Arrived(h) \/ Len(handles) > h \/ hero.destroyed)

C5_Witness ==
    /\ Arrived(2)
    /\ handles[1] = 1
    /\ hero.movement.duration = 2000

\* C6: a moveTo during an active tween overwrites the tween: the new tween
\* starts at the character's current position with nothing elapsed and carries
\* the new handle; the superseded handle is never resolved afterwards; and a
\* completing tick resolves the handle of the newest moveTo.
C6_Supersede ==
    [][ /\ (Len(handles') = Len(handles) + 1 /\ hero.movement.active) =>
              /\ ents'[Hero].movement.active
              /\ ents'[Hero].movement.startX = hero.x
              /\ ents'[Hero].movement.startY = hero.y
              /\ ents'[Hero].movement.elapsed = 0
              /\ ents'[Hero].movement.resolve = Len(handles')
              /\ ents'[Hero].x = hero.x /\ ents'[Hero].y = hero.y
        /\ \A h \in 1..Len(handles) :
              (h < Len(handles) /\ handles[h] = 0) => handles'[h] = 0
        /\ Completes => handles'[Len(handles)] = 1 ]_vars

C6_Witness ==
    /\ Len(handles) = 2
    /\ handles[1] = 0
    /\ handles[2] = 1
    /\ hero.movement.startX \notin {-120, 64, 0, 900}
    /\ hero.x = hero.movement.targetX


\* ------------------------------------------------------------------------
\* Scene specification: entities constructed, positioned and registered with
\* the EntityManager, under a camera that stays where it was constructed
\* ------------------------------------------------------------------------
Classes == {"Building", "Character"}
PlaceGrids == {<<1, 1>>, <<2, 2>>}
SceneScreens == {<<100, 26>>}
SceneDeltaMs == {250}

Constructed(o) == ents[o].cls # "none"
Usable(o) == Constructed(o) /\ ~ents[o].destroyed

InitScene ==
    /\ InitCommon
    /\ mode \in Modes
    /\ ents = [o \in Objs |-> NoEntity]

\* new Building(camera, config) / new Character(camera, config, ticker)
Construct(cls, id, gx, gy) ==
    /\ \E o \in Objs : ~Constructed(o)
    /\ LET o == CHOOSE n \in Objs :
                    ~Constructed(n) /\ \A k \in 1..(n - 1) : Constructed(k)
       IN  ents' = [ents EXCEPT ![o] =
                       IF cls = "Building"
                       THEN NewBuilding(mode, camPos, id, gx, gy)
                       ELSE NewCharacter(mode, camPos, id, gx, gy)]
    /\ UNCHANGED <<view, agents, timers, ws, containerDestroyed, tileMap, mode, camPos, probe, registry, children, handles, addOrder>>

\* entityManager.add(entity)
Add(o) ==
    /\ Usable(o)
    /\ LET r == AddTo(registry, children, ents, o)
       IN  /\ registry' = r.registry
           /\ children' = r.children
    /\ addOrder' = Append(SelectSeq(addOrder, LAMBDA k : ents[k].id # ents[o].id), o)
    /\ UNCHANGED <<view, agents, timers, ws, containerDestroyed, tileMap, mode, camPos, probe, ents, handles>>

\* const entity = entityManager.remove(id); probe keeps the entity returned
\* (0 for undefined).
Remove(id) ==
    /\ LET r == RemoveFrom(registry, children, ents, id)
       IN  /\ registry' = r.registry
           /\ children' = r.children
    /\ addOrder' = SelectSeq(addOrder, LAMBDA k : ents[k].id # id)
    /\ probe' = [asked |-> TRUE, id |-> id, returned |-> Get(registry, ents, id)]
    /\ UNCHANGED <<view, agents, timers, ws, containerDestroyed, tileMap, mode, camPos, ents, handles>>

RECURSIVE RemoveAll(_, _)
\* The loop of clear(): removeChild for every registered entity.
RemoveAll(reg, ch) ==
    IF reg = << >> THEN ch ELSE RemoveAll(Tail(reg), RemoveChild(ch, Head(reg)))

\* entityManager.clear()
Clear ==
    /\ children' = RemoveAll(registry, children)
    /\ registry' = << >>
    /\ addOrder' = << >>
    /\ UNCHANGED <<view, agents, timers, ws, containerDestroyed, tileMap, mode, camPos, probe, ents, handles>>

\* entityManager.updateAllDepths()
UpdateAllDepths ==
    /\ ents' = [o \in Objs |->
                   IF o \in SeqSet(registry) THEN UpdateDepth(mode, ents[o])
                   ELSE ents[o]]
    /\ UNCHANGED <<view, agents, timers, ws, containerDestroyed, tileMap, mode, camPos, probe, registry, children, handles, addOrder>>

\* entityManager.sortChildren()
SortChildren ==
    /\ children' = SortByZ(children, ents)
    /\ UNCHANGED <<view, agents, timers, ws, containerDestroyed, tileMap, mode, camPos, probe, ents, registry, handles, addOrder>>

\* One call of a position method on entity o.
Reposition(o, e) ==
    /\ Usable(o)
    /\ ents' = [ents EXCEPT ![o] = e]
    /\ UNCHANGED <<view, agents, timers, ws, containerDestroyed, tileMap, mode, camPos, probe, registry, children, handles, addOrder>>

EntSetGridX(o, v) == Reposition(o, SetGridX(mode, camPos, ents[o], v))
EntSetGridY(o, v) == Reposition(o, SetGridY(mode, camPos, ents[o], v))
EntSetGridPosition(o, gx, gy) ==
    Reposition(o, SetGridPosition(mode, camPos, ents[o], gx, gy))
EntTeleportToGrid(o, gx, gy) ==
    Reposition(o, TeleportToGrid(mode, camPos, ents[o], gx, gy))
EntSetScreenPosition(o, x, y) ==
    Reposition(o, SetScreenPosition(mode, ents[o], x, y))
EntTeleportToScreen(o, x, y) ==
    Reposition(o, TeleportToScreen(mode, camPos, ents[o], x, y))

\* building.build()
EntBuild(o) ==
    /\ ents[o].cls = "Building"
    /\ ents[o].builds < MaxBuilds
    /\ Reposition(o, BuildBuilding(mode, ents[o]))

\* character.moveToGrid(gridX, gridY) as the canvas calls it: the promise it
\* returns is dropped.
EntMoveToGrid(o, gx, gy) ==
    /\ Usable(o)
    /\ ents[o].cls = "Character"
    /\ ents' = [ents EXCEPT ![o] =
                   MoveToGrid(mode, camPos, @, gx, gy, Undefined, Discarded)]
    /\ UNCHANGED <<view, agents, timers, ws, containerDestroyed, tileMap, mode, camPos, probe, registry, children, handles, addOrder>>

RECURSIVE Resolve(_, _)
\* The handle counts after the resolve calls of one tick.
Resolve(hs, rs) ==
    IF rs = {} THEN hs
    ELSE LET h == CHOOSE x \in rs : TRUE
         IN  Resolve([hs EXCEPT ![h] = @ + 1], rs \ {h})

\* One firing of the shared ticker: the update callback of every character
\* that is still subscribed runs with the same deltaMS.
Tick(dt) ==
    /\ \E o \in Objs : ents[o].ticking /\ ents[o].movement.active
    /\ LET u == [o \in Objs |->
                    IF ents[o].ticking THEN Update(mode, ents[o], dt)
                    ELSE [e |-> ents[o], resolved |-> NoHandle]]
       IN  /\ ents' = [o \in Objs |-> u[o].e]
           /\ handles' = Resolve(handles, {u[o].resolved : o \in Objs}
                                           \ {NoHandle, Discarded})
    /\ UNCHANGED <<view, agents, timers, ws, containerDestroyed, tileMap, mode, camPos, probe, registry, children, addOrder>>

\* entity.destroy(): a character leaves the ticker; the container is destroyed.
DestroyEntity(e) ==
    IF e.cls = "Character" THEN DestroyCharacter(e)
    ELSE [e EXCEPT !.destroyed = TRUE]

\* entityManager.destroy(): every registered entity is destroyed, the registry
\* emptied, and the container destroyed with its children.
MgrDestroy ==
    /\ ents' = [o \in Objs |->
                   IF o \in SeqSet(registry) THEN DestroyEntity(ents[o])
                   ELSE ents[o]]
    /\ registry' = << >>
    /\ children' = << >>
    /\ addOrder' = << >>
    /\ containerDestroyed' = TRUE
    /\ UNCHANGED <<view, agents, timers, ws, tileMap, mode, camPos, probe, handles>>

\* Registry specification: entities with any of the ids are constructed, moved
\* on the grid, added, removed, cleared and sorted.
NextMgr ==
    \/ \E c \in Classes, i \in Ids, g \in PlaceGrids : Construct(c, i, g[1], g[2])
    \/ \E o \in Objs : Add(o)
    \/ \E i \in Ids : Remove(i)
    \/ Clear
    \/ SortChildren
    \/ \E o \in Objs, g \in PlaceGrids : EntSetGridPosition(o, g[1], g[2])

SpecMgr == InitScene /\ [][NextMgr]_vars

\* The id of the n-th placement of the scene configuration.
SceneId(n) == IF n = 1 THEN "a" ELSE "b"

NextFree == Cardinality({o \in Objs : Constructed(o)}) + 1

\* TownCanvas scene setup, one placement: the entity is constructed, built
\* and added to the manager.  (Character.build() creates visuals only.)
Place(cls, gx, gy) ==
    /\ NextFree \in Objs
    /\ LET o == NextFree
           e == IF cls = "Building"
                THEN BuildBuilding(mode,
                         NewBuilding(mode, camPos, SceneId(o), gx, gy))
                ELSE NewCharacter(mode, camPos, SceneId(o), gx, gy)
           es == [ents EXCEPT ![o] = e]
           r == AddTo(registry, children, es, o)
       IN  /\ ents' = es
           /\ registry' = r.registry
           /\ children' = r.children
           /\ addOrder' = Append(addOrder, o)
    /\ UNCHANGED <<view, agents, timers, ws, containerDestroyed, tileMap, mode, camPos, probe, handles>>

DepthGrids == {<<2, 2>>}

\* The entities that are rebuilt and moved after their placement; the others
\* stay where the scene configuration placed them.
Movers == {1}

\* Depth specification: the entities of a scene are placed and may be placed
\* anew on the grid; the movers are also rebuilt and moved by every other
\* position operation.
NextDepth ==
    \/ \E c \in Classes, g \in PlaceGrids : Place(c, g[1], g[2])
    \/ UpdateAllDepths
    \/ \E o \in Movers, g \in DepthGrids : EntSetGridX(o, g[1])
    \/ \E o \in Movers, g \in DepthGrids : EntSetGridY(o, g[2])
    \/ \E o \in Objs, g \in PlaceGrids : EntSetGridPosition(o, g[1], g[2])
    \/ \E o \in Movers, g \in DepthGrids : EntTeleportToGrid(o, g[1], g[2])
    \/ \E o \in Movers, p \in SceneScreens : EntSetScreenPosition(o, p[1], p[2])
    \/ \E o \in Movers, p \in SceneScreens : EntTeleportToScreen(o, p[1], p[2])
    \/ \E o \in Movers : EntBuild(o)
    \/ \E o \in Movers, g \in DepthGrids : EntMoveToGrid(o, g[1], g[2])
    \/ \E dt \in SceneDeltaMs : Tick(dt)

SpecDepth == InitScene /\ [][NextDepth]_vars

\* ------------------------------------------------------------------------
\* Claims on the registry and on depth
\* ------------------------------------------------------------------------
Registered == SeqSet(registry)
RegisteredIds == {ents[o].id : o \in Registered}

\* C7: at most one entity is registered per id, get(id) is the entity most
\* recently added under that id, count is the number of registered ids, and
\* the children of the manager's container are exactly the containers of the
\* registered entities, each once.
C7_Registry ==
    /\ \A i, j \in 1..Len(registry) :
          ents[registry[i]].id = ents[registry[j]].id => i = j
    /\ \A k \in 1..Len(addOrder) :
          Get(registry, ents, ents[addOrder[k]].id) = addOrder[k]
    /\ \A id \in Ids :
          Has(registry, ents, id) => \E k \in 1..Len(addOrder) :
                                        ents[addOrder[k]].id = id
    /\ Count(registry) = Cardinality(RegisteredIds)
    /\ SeqSet(children) = Registered
    /\ Len(children) = Cardinality(Registered)

\* An entity was replaced by another of the same id.
C7_Witness ==
    /\ Constructed(1) /\ Constructed(2)
    /\ ents[1].id = ents[2].id
    /\ registry = <<2>>
    /\ children = <<2>>

QueryPoints == {<<1, 2>>, <<0, 0>>, <<2, 2>>, <<3, 1>>}

\* The place of object o in the order of the add() calls.
AddedAt(o) == CHOOSE k \in 1..Len(addOrder) : addOrder[k] = o

\* C8: getNearest returns a registered entity at minimal Euclidean grid
\* distance, the first inserted of those at that distance, and undefined
\* exactly when nothing is registered.
C8_Nearest ==
    \A q \in QueryPoints :
        LET n == GetNearest(registry, ents, q[1], q[2])
        IN  /\ (n = 0) <=> (registry = << >>)
            /\ n # 0 =>
                  /\ n \in Registered
                  /\ \A o \in Registered :
                        /\ Dist2(ents[n], q[1], q[2]) <= Dist2(ents[o], q[1], q[2])
                        /\ Dist2(ents[n], q[1], q[2]) = Dist2(ents[o], q[1], q[2])
                              => AddedAt(n) <= AddedAt(o)

\* Two entities at the same distance from (1, 2); the first inserted is found,
\* and it is not the first constructed.
C8_Witness ==
    /\ Len(registry) = 2
    /\ addOrder = <<2, 1>>
    /\ Dist2(ents[1], 1, 2) = Dist2(ents[2], 1, 2)
    /\ GetNearest(registry, ents, 1, 2) = 2

\* q lies to the lower right of p on the grid (or on it).
LowerRight(p, q) == p.gridX <= q.gridX /\ p.gridY <= q.gridY

RenderOrder == SortByZ(children, ents)

\* C10: every entity's zIndex is the one updateDepth derives from its current
\* screen y, and the render order of the registered entities follows their
\* current depths.
C10_DepthCurrent ==
    /\ \A o \in Objs :
          Constructed(o) => ents[o].zIndex = UpdateDepth(mode, ents[o]).zIndex
    /\ \A i, j \in 1..Len(RenderOrder) :
          i < j => Depth(ents[RenderOrder[i]]) <= Depth(ents[RenderOrder[j]])

\* ------------------------------------------------------------------------
\* Claims on the grid position
\* ------------------------------------------------------------------------
\* EntityManager.getAt: the registered entities at a grid position.
GetAt(reg, es, gx, gy) ==
    SelectSeq(reg, LAMBDA o : es[o].gridX = gx /\ es[o].gridY = gy)

\* The vertical offset a class adds to the projection of its grid position:
\* Character.updatePosition adds half a tile height in every mode,
\* Building.build in the isometric modes.
ClassOffset(m, e) ==
    IF e.cls = "Character" \/ Iso(m) THEN ISO_TILE_HEIGHT \div 2 ELSE 0

\* The tween of entity e has run to its end and e still stands at its target.
AtTweenTarget(e) ==
    /\ e.cls = "Character"
    /\ ~e.movement.active
    /\ e.movement.duration > 0
    /\ e.x = e.movement.targetX /\ e.y = e.movement.targetY

\* Arguments of the grid position operations: inside the grid, left of it, and
\* just past its right edge.
GridInputs == {<<2, 2>>, <<-1, 0>>, <<GRID_WIDTH, 2>>}

\* Grid specification: the entities of a scene are placed, and the movers are
\* positioned and moved by the operations that take a grid position.
NextGrid ==
    \/ \E c \in Classes, g \in PlaceGrids : Place(c, g[1], g[2])
    \/ \E o \in Movers, g \in GridInputs : EntSetGridX(o, g[1])
    \/ \E o \in Movers, g \in GridInputs : EntSetGridY(o, g[2])
    \/ \E o \in Movers, g \in GridInputs : EntSetGridPosition(o, g[1], g[2])
    \/ \E o \in Movers, g \in GridInputs : EntTeleportToGrid(o, g[1], g[2])
    \/ \E o \in Movers, g \in DepthGrids : EntMoveToGrid(o, g[1], g[2])
    \/ \E dt \in SceneDeltaMs : Tick(dt)

SpecGrid == InitScene /\ [][NextGrid]_vars

\* C11: an entity without an active tween stands at the projection of its
\* grid position plus its class's offset; and a registered character whose
\* moveToGrid has completed is found by getAt at the grid position it moved to.
C11_GridIsTruth ==
    /\ \A o \in Objs :
          (Constructed(o) /\ ~ents[o].movement.active) =>
              LET p == GridToScreen(mode, camPos, ents[o].gridX, ents[o].gridY)
              IN  /\ ents[o].x = p.x
                  /\ ents[o].y = p.y + ClassOffset(mode, ents[o])
    /\ \A o \in Registered :
          AtTweenTarget(ents[o]) =>
              LET g == ScreenToGrid(mode, camPos, ents[o].movement.targetX,
                                    ents[o].movement.targetY - ISO_TILE_HEIGHT \div 2)
              IN  o \in SeqSet(GetAt(registry, ents, g.gridX, g.gridY))

\* C12: the grid position of every placed entity lies inside the grid.
C12_GridInBounds ==
    \A o \in Objs :
        Constructed(o) => IsValidGridPosition(ents[o].gridX, ents[o].gridY)

\* ------------------------------------------------------------------------
\* Movement specification: moveTo between screen positions, one tween at a
\* time, with the arguments of the last call kept in probe
\* ------------------------------------------------------------------------
MoveTargets == {<<0, 0>>, <<100, 0>>, <<100, 41>>, <<100, 42>>, <<-100, 100>>,
                <<0, -300>>, <<300, 400>>, <<900, 90>>}
MoveDeltaMs == {250}
Recalls == {<<0, 0>>}

\* The character has been teleported to the screen origin.
InitMove ==
    /\ InitCommon
    /\ mode \in CharModes
    /\ \E g \in StartGrids, sheets \in BOOLEAN :
          ents = [o \in 1..MaxObjs |->
                    IF o = Hero
                    THEN SetScreenPosition(mode,
                             [NewCharacter(mode, camPos, "a", g[1], g[2])
                                 EXCEPT !.usingSpriteSheets = sheets], 0, 0)
                    ELSE NoEntity]

\* character.moveTo(x, y, duration?) on a character at rest, or a recall
\* during a tween; the promise is dropped.
\* probe keeps the arguments, the position and facing at the call, and the
\* facing an AnimatedCharacter would compute for the same vector.
MoveProbe(x, y, duration) ==
    /\ ~hero.destroyed
    /\ hero.movement.active => <<x, y>> \in Recalls
    /\ ents' = [ents EXCEPT ![Hero] = MoveTo(@, x, y, duration, Discarded)]
    /\ probe' = [asked |-> TRUE, fromX |-> hero.x, fromY |-> hero.y,
                 x |-> x, y |-> y, duration |-> duration,
                 direction |-> hero.direction,
                 animated |-> AnimatedCalculateDirection(hero, x - hero.x, y - hero.y)]
    /\ UNCHANGED <<view, agents, timers, ws, containerDestroyed, tileMap, mode, camPos, registry, children, handles, addOrder>>

\* One firing of the ticker during a tween.
MoveTick(dt) ==
    /\ hero.ticking
    /\ hero.movement.active
    /\ ents' = [ents EXCEPT ![Hero] = Update(mode, @, dt).e]
    /\ UNCHANGED <<view, agents, timers, ws, containerDestroyed, tileMap, mode, camPos, probe, registry, children, handles, addOrder>>

NextMove ==
    \/ \E t \in MoveTargets, d \in Durations : MoveProbe(t[1], t[2], d)
    \/ \E dt \in MoveDeltaMs : MoveTick(dt)

SpecMove == InitMove /\ [][NextMove]_vars

\* C13: without a duration argument the tween's duration is three times the
\* distance from the position at the call to the target, clamped to
\* [500, 2000] ms (in whole milliseconds, rounded up); a given duration is
\* used as it is.
C13_Duration ==
    probe.asked =>
        LET dx == probe.x - probe.fromX
            dy == probe.y - probe.fromY
            q == 9 * (dx * dx + dy * dy)
            r == hero.movement.duration
        IN  IF probe.duration # Undefined THEN r = probe.duration
            ELSE /\ 500 <= r /\ r <= 2000
                 /\ r > 500 => (r - 1) * (r - 1) < q
                 /\ r < 2000 => q <= r * r

\* The move of 100 pixels from the origin, and one of 500 pixels.
C13_Witness ==
    /\ probe.asked
    /\ probe.fromX = 100 /\ probe.fromY = 0
    /\ probe.x = 300 /\ probe.y = 400
    /\ probe.duration = Undefined
    /\ hero.movement.active
    /\ hero.movement.duration > 500 /\ hero.movement.duration < 2000


\* The eight compass sectors: name, centre direction, and whether the centre
\* is a diagonal (of length sqrt 2).
Compass == {<<"east", 1, 0, FALSE>>, <<"south-east", 1, 1, TRUE>>,
            <<"south", 0, 1, FALSE>>, <<"south-west", -1, 1, TRUE>>,
            <<"west", -1, 0, FALSE>>, <<"north-west", -1, -1, TRUE>>,
            <<"north", 0, -1, FALSE>>, <<"north-east", 1, -1, TRUE>>}

\* a * sqrt(2) > b
SqrtTwoTimesGreater(a, b) ==
    IF a >= 0 THEN b < 0 \/ 2 * a * a > b * b
    ELSE b < 0 /\ 2 * a * a < b * b

\* The unit vector of sector k is at least as close in angle to (dx, dy) as
\* that of sector j: its scalar product with (dx, dy) is at least as large.
AtLeastAsNear(k, j, dx, dy) ==
    LET nk == k[2] * dx + k[3] * dy
        nj == j[2] * dx + j[3] * dy
    IN  IF k[4] = j[4] THEN nk >= nj
        ELSE IF k[4] THEN ~SqrtTwoTimesGreater(nj, nk)
        ELSE SqrtTwoTimesGreater(nk, nj) \/ (nk = 0 /\ nj = 0)

\* The sector whose centre is nearest to atan2(dy, dx), for a non-zero vector
NearestSector(dx, dy) ==
    (CHOOSE k \in Compass : \A j \in Compass : AtLeastAsNear(k, j, dx, dy))[1]

DominantAxis(dx, dy) ==
    IF Abs(dx) > Abs(dy) THEN (IF dx > 0 THEN "east" ELSE "west")
    ELSE (IF dy > 0 THEN "south" ELSE "north")

\* C14: once a tween has been advanced, the character faces, for a non-zero
\* vector from the start to the target, the dominant axis in 4-way
\* (orthogonal) mode and the nearest of the eight compass sectors in 8-way
\* (isometric) mode, and for the zero vector the way it faced at the call;
\* an AnimatedCharacter computes the dominant axis in every mode.
C14_Direction ==
    probe.asked =>
        LET dx == probe.x - probe.fromX
            dy == probe.y - probe.fromY
        IN  /\ probe.animated = IF dx = 0 /\ dy = 0 THEN probe.direction
                                ELSE DominantAxis(dx, dy)
            /\ hero.movement.elapsed > 0 =>
                  hero.direction =
                     IF dx = 0 /\ dy = 0 THEN probe.direction
                     ELSE IF Iso(mode) THEN NearestSector(dx, dy)
                     ELSE DominantAxis(dx, dy)

\* A vector just past 22.5 degrees turns the character south-east in 8-way
\* mode.
C14_Witness ==
    /\ probe.asked
    /\ Iso(mode)
    /\ probe.fromX = 0 /\ probe.fromY = 0
    /\ probe.x = 100 /\ probe.y = 42
    /\ hero.movement.elapsed > 0
    /\ hero.direction = "south-east"
    /\ probe.direction # "south-east"


\* ------------------------------------------------------------------------
\* IsometricTileMap and the tile grid of lib/pixi/tiles.ts
\* ------------------------------------------------------------------------
TileTypes == {"grass", "road", "sidewalk", "road_marking"}

\* A mutant layout whose sidewalks lie on the outer rows of the road.
GenerateTownLayout_NarrowRoad(m, w, h) ==
    LET roadCenterY == h \div 2
        roadHalfWidth == 1
        Tile(y) ==
            IF ~Iso(m) THEN "grass"
            ELSE IF y = roadCenterY + roadHalfWidth THEN "sidewalk"
            ELSE IF y = roadCenterY - roadHalfWidth THEN "sidewalk"
            ELSE IF y = roadCenterY THEN "road_marking"
            ELSE "grass"
    IN  [y \in 0..(h - 1) |-> [x \in 0..(w - 1) |-> Tile(y)]]

\* IsometricTileMap.generateTownLayout: every tile grass, then, in an
\* isometric build, the four assignments of the loop body in their order.
GenerateTownLayout(m, w, h) ==
    LET roadCenterY == h \div 2
        roadHalfWidth == 1
        Tile(y) ==
            LET t0 == "grass"
                t1 == IF y >= roadCenterY - roadHalfWidth
                          /\ y <= roadCenterY + roadHalfWidth THEN "road" ELSE t0
                t2 == IF y = roadCenterY THEN "road_marking" ELSE t1
                t3 == IF y = roadCenterY - roadHalfWidth - 1 THEN "sidewalk" ELSE t2
                t4 == IF y = roadCenterY + roadHalfWidth + 1 THEN "sidewalk" ELSE t3
            IN  IF Iso(m) THEN t4 ELSE t0
    IN  [y \in 0..(h - 1) |-> [x \in 0..(w - 1) |-> Tile(y)]]

\* new IsometricTileMap(camera, {gridWidth, gridHeight}); written is the
\* history of the tiles assigned by setTileAt since.
NewTileMap(m, w, h) ==
    [gridWidth |-> w, gridHeight |-> h, tileData |-> GenerateTownLayout(m, w, h),
     written |-> {}]

\* layout[gridY][gridX] in JavaScript: indexing a missing row throws, a
\* missing column yields undefined.
Lookup(layout, gridX, gridY) ==
    IF gridY \notin DOMAIN layout THEN "TypeError"
    ELSE IF gridX \notin DOMAIN layout[gridY] THEN "undefined"
    ELSE layout[gridY][gridX]

\* A getTileAt without the test of the lower edge.
GetTileAt_NoLowerEdge(tm, gridX, gridY) ==
    IF gridX < 0 \/ gridX >= tm.gridWidth \/ gridY < 0
    THEN "grass"
    ELSE Lookup(tm.tileData, gridX, gridY)

\* IsometricTileMap.getTileAt
GetTileAt(tm, gridX, gridY) ==
    IF gridX < 0 \/ gridX >= tm.gridWidth \/ gridY < 0 \/ gridY >= tm.gridHeight
    THEN "grass"
    ELSE Lookup(tm.tileData, gridX, gridY)

\* A setTileAt that writes the whole row.
SetTileAt_WholeRow(tm, gridX, gridY, tileType) ==
    IF gridX >= 0 /\ gridX < tm.gridWidth /\ gridY >= 0 /\ gridY < tm.gridHeight
    THEN [tm EXCEPT !.tileData[gridY] = [x \in DOMAIN @ |-> tileType],
                    !.written = @ \cup {<<gridX, gridY>>}]
    ELSE tm

\* IsometricTileMap.setTileAt
SetTileAt(tm, gridX, gridY, tileType) ==
    IF gridX >= 0 /\ gridX < tm.gridWidth /\ gridY >= 0 /\ gridY < tm.gridHeight
    THEN [tm EXCEPT !.tileData[gridY][gridX] = tileType,
                    !.written = @ \cup {<<gridX, gridY>>}]
    ELSE tm

\* lib/pixi/tiles.ts generateTownLayout: the cached layout of the
\* GRID_WIDTH x GRID_HEIGHT town.
TownLayout(m) ==
    LET mainStreetStartRow == 280 \div LEGACY_TILE_SIZE
        mainStreetEndRow == (280 + 60 + LEGACY_TILE_SIZE - 1) \div LEGACY_TILE_SIZE
        mainStreetCenterRow == (280 + 30) \div LEGACY_TILE_SIZE
        crossStreetCenterCol == 600 \div LEGACY_TILE_SIZE
        crossStreetStartCol == crossStreetCenterCol - 1
        crossStreetEndCol == crossStreetCenterCol + 1
        IsoTile(x, y) ==
            LET sum == x + y
                t1 == IF sum >= 12 /\ sum <= 14 THEN "road" ELSE "grass"
                t2 == IF sum = 13 THEN "road_marking" ELSE t1
                t3 == IF sum = 11 THEN "sidewalk" ELSE t2
                t4 == IF sum = 15 THEN "sidewalk" ELSE t3
            IN  IF y >= 8 /\ y < GRID_HEIGHT - 2 /\ x \in 14..16 THEN "road"
                ELSE IF y > 8 /\ y < GRID_HEIGHT - 2 /\ x \in {13, 17} THEN "sidewalk"
                ELSE t4
        OffCross(x) == x < crossStreetStartCol \/ x > crossStreetEndCol
        LegacyTile(x, y) ==
            IF y = mainStreetEndRow /\ OffCross(x) THEN "sidewalk"
            ELSE IF y = mainStreetStartRow - 1 THEN "sidewalk"
            ELSE IF y >= mainStreetEndRow /\ ~OffCross(x) THEN "road"
            ELSE IF y = mainStreetCenterRow /\ OffCross(x) THEN "road_marking"
            ELSE IF y >= mainStreetStartRow /\ y < mainStreetEndRow THEN "road"
            ELSE "grass"
    IN  [y \in 0..(GRID_HEIGHT - 1) |->
            [x \in 0..(GRID_WIDTH - 1) |->
                IF Iso(m) THEN IsoTile(x, y) ELSE LegacyTile(x, y)]]

\* lib/pixi/tiles.ts getTileAt: the type of the tile definition it returns
TilesGetTileAt(m, gridX, gridY) ==
    IF gridX < 0 \/ gridX >= GRID_WIDTH \/ gridY < 0 \/ gridY >= GRID_HEIGHT
    THEN "grass"
    ELSE Lookup(TownLayout(m), gridX, gridY)

MaxGridHeight == 6
TileDims == {<<GRID_WIDTH, GRID_HEIGHT>>} \cup ({1, 3} \X (1..MaxGridHeight))

\* Query and write positions: corners inside, and positions one step outside
\* each edge of the map (and of the town grid).
TilePoints(tm) ==
    {<<0, 0>>, <<tm.gridWidth - 1, tm.gridHeight - 1>>, <<-1, -1>>, <<-1, 0>>,
     <<0, -1>>, <<tm.gridWidth, 0>>, <<0, tm.gridHeight>>,
     <<tm.gridWidth, tm.gridHeight>>, <<GRID_WIDTH, GRID_HEIGHT>>}

InitTiles ==
    /\ mode \in Modes
    /\ camPos = [x |-> 0, y |-> 0]
    /\ probe = NoProbe
    /\ ents = [o \in 1..MaxObjs |-> NoEntity]
    /\ registry = << >> /\ children = << >> /\ handles = << >>
    /\ addOrder = << >>
    /\ containerDestroyed = FALSE
    /\ view = NoView /\ agents = NoAgents /\ timers = << >> /\ ws = NoSocket
    /\ \E d \in TileDims : tileMap = NewTileMap(mode, d[1], d[2])

\* tileMap.setTileAt(gridX, gridY, tileType)
TileSet(gridX, gridY, tileType) ==
    /\ tileMap' = SetTileAt(tileMap, gridX, gridY, tileType)
    /\ UNCHANGED <<view, agents, timers, ws, containerDestroyed, mode, camPos, probe, ents, registry, children, handles,
                   addOrder>>

\* tileMap.getTileAt(gridX, gridY) and getTileAt(gridX, gridY) of tiles.ts
TileGet(gridX, gridY) ==
    /\ probe' = [asked |-> TRUE, gridX |-> gridX, gridY |-> gridY,
                 tile |-> GetTileAt(tileMap, gridX, gridY),
                 townTile |-> TilesGetTileAt(mode, gridX, gridY)]
    /\ UNCHANGED <<view, agents, timers, ws, containerDestroyed, mode, camPos, ents, registry, children, handles, addOrder,
                   tileMap>>

NextTiles ==
    \/ \E p \in TilePoints(tileMap), t \in TileTypes : TileSet(p[1], p[2], t)
    \/ \E p \in TilePoints(tileMap) : TileGet(p[1], p[2])

SpecTiles == InitTiles /\ [][NextTiles]_vars

\* C15: a query outside the map answers grass, without an exception and
\* whatever has been written; so does the query of the town grid outside
\* GRID_WIDTH x GRID_HEIGHT.
C15_OutOfBoundsGrass ==
    probe.asked =>
        /\ (probe.gridX < 0 \/ probe.gridX >= tileMap.gridWidth
            \/ probe.gridY < 0 \/ probe.gridY >= tileMap.gridHeight)
              => probe.tile = "grass"
        /\ (probe.gridX < 0 \/ probe.gridX >= GRID_WIDTH
            \/ probe.gridY < 0 \/ probe.gridY >= GRID_HEIGHT)
              => probe.townTile = "grass"

\* The query at (gridWidth, gridHeight) of a map with a tile written answers
\* grass.
C15_Witness ==
    /\ probe.asked
    /\ probe.gridX = tileMap.gridWidth /\ probe.gridY = tileMap.gridHeight
    /\ tileMap.written # {}
    /\ tileMap.tileData[0][0] # "grass"
    /\ probe.tile = "grass"

\* The tile the road band gives row y of a map of height h
BandTile(h, y) ==
    LET c == h \div 2
    IN  IF y = c THEN "road_marking"
        ELSE IF y \in {c - 1, c + 1} THEN "road"
        ELSE IF y \in {c - 2, c + 2} THEN "sidewalk"
        ELSE "grass"

Unwritten(tm) ==
    {p \in (0..(tm.gridWidth - 1)) \X (0..(tm.gridHeight - 1)) : p \notin tm.written}

\* C16 as stated: every tile not written since the construction is the tile
\* of the road band around row floor(gridHeight / 2), in every build.
C16_LayoutBand ==
    \A p \in Unwritten(tileMap) :
        tileMap.tileData[p[2]][p[1]] = BandTile(tileMap.gridHeight, p[2])

\* C16: in an isometric build every tile not written since the construction
\* is the tile of the road band around row floor(gridHeight / 2); in an
\* orthogonal build it is grass.  The layout is a function of the build's mode
\* and the dimensions alone.
C16_LayoutBandIso ==
    \A p \in Unwritten(tileMap) :
        tileMap.tileData[p[2]][p[1]] =
            IF Iso(mode) THEN BandTile(tileMap.gridHeight, p[2]) ELSE "grass"

\* The 28 x 36 map of the staggered build.
C16_Witness ==
    /\ mode = "staggered"
    /\ tileMap.gridWidth = 28 /\ tileMap.gridHeight = 36
    /\ tileMap.written = {<<0, 0>>}
    /\ tileMap.tileData[18][5] = "road_marking"
    /\ tileMap.tileData[17][5] = "road" /\ tileMap.tileData[19][5] = "road"
    /\ tileMap.tileData[16][5] = "sidewalk" /\ tileMap.tileData[20][5] = "sidewalk"
    /\ tileMap.tileData[10][5] = "grass"


\* ------------------------------------------------------------------------
\* Character visuals: the tiers of initializeVisuals
\* ------------------------------------------------------------------------
DIRECTION_8_TO_4(d) ==
    CASE d \in {"south", "south-east"} -> "south"
      [] d \in {"west", "south-west"} -> "west"
      [] d \in {"north", "north-west"} -> "north"
      [] d \in {"east", "north-east"} -> "east"

\* Character.loadSpriteSheetTextures: rot and walk are the directions for
\* which the loader has a rotation texture and a full set of walking frames.
LoadSpriteSheetTextures(m, loader, rot, walk) ==
    LET directionsToLoad == IF Iso(m) THEN DIRECTIONS_8 ELSE DIRECTIONS_4
        Loaded(have) ==
            {d \in directionsToLoad :
                \/ d \in have
                \/ Iso(m) /\ DIRECTION_8_TO_4(d) # d /\ DIRECTION_8_TO_4(d) \in have}
    IN  IF ~loader
        THEN [rotationTextures |-> {}, walkingFrames |-> {}, success |-> FALSE]
        ELSE [rotationTextures |-> Loaded(rot), walkingFrames |-> Loaded(walk),
              success |-> Loaded(rot) # {} /\ Loaded(walk) # {}]

\* Character.initializeVisuals: what is added to the sprite container, and
\* usingSpriteSheets.  a is the state of the assets: loader (a loader has been
\* set), sheetsLoaded, assetsLoaded, portrait (the configured portrait
\* texture exists), rot, walk.
InitializeVisuals(m, e, a) ==
    LET sheets == LoadSpriteSheetTextures(m, a.loader, a.rot, a.walk)
    IN  IF a.loader /\ a.sheetsLoaded /\ sheets.success
        THEN [usingSpriteSheets |-> TRUE,
              tier |-> IF e.direction \in sheets.rotationTextures
                       THEN "sheets" ELSE "placeholder"]
        ELSE [usingSpriteSheets |-> FALSE, tier |-> "placeholder"]

\* AnimatedCharacter.loadSpriteSheetTextures
AnimatedLoadSpriteSheetTextures(m, rot, walk) ==
    LET ALL_DIRECTIONS == IF Iso(m) THEN DIRECTIONS_8 ELSE DIRECTIONS_4
    IN  [rotationTextures |-> ALL_DIRECTIONS \cap rot,
         walkingFrames |-> ALL_DIRECTIONS \cap walk,
         success |-> ALL_DIRECTIONS \cap rot # {} /\ ALL_DIRECTIONS \cap walk # {}]

\* AnimatedCharacter.initializeVisuals
AnimatedInitializeVisuals(m, e, a) ==
    LET sheets == AnimatedLoadSpriteSheetTextures(m, a.rot, a.walk)
    IN  IF a.sheetsLoaded /\ sheets.success /\ e.direction \in sheets.rotationTextures
        THEN [usingSpriteSheets |-> TRUE, tier |-> "sheets"]
        ELSE IF a.portrait /\ a.assetsLoaded
        THEN [usingSpriteSheets |-> a.sheetsLoaded /\ sheets.success,
              tier |-> "portrait"]
        ELSE [usingSpriteSheets |-> a.sheetsLoaded /\ sheets.success,
              tier |-> "placeholder"]

TextureSets == {{}, {"south"}, {"east"}, {"south-east"}, DIRECTIONS_4, DIRECTIONS_8}

AssetStates ==
    [loader : BOOLEAN, sheetsLoaded : BOOLEAN, assetsLoaded : BOOLEAN,
     portrait : BOOLEAN, rot : TextureSets, walk : TextureSets]

\* A character has been constructed and not yet built.
InitVisuals ==
    /\ InitCommon
    /\ mode \in Modes
    /\ \E g \in StartGrids :
          ents = [o \in 1..MaxObjs |->
                    IF o = Hero THEN NewCharacter(mode, camPos, "a", g[1], g[2])
                    ELSE NoEntity]

\* character.build() with the assets in state a; probe keeps a and the tier
\* chosen, and the tier an AnimatedCharacter constructed then chooses.
BuildVisuals(a) ==
    /\ ~probe.asked
    /\ LET v == InitializeVisuals(mode, hero, a)
       IN  /\ ents' = [ents EXCEPT ![Hero].usingSpriteSheets = v.usingSpriteSheets]
           /\ probe' = [asked |-> TRUE, assets |-> a, tier |-> v.tier,
                        animatedTier |-> AnimatedInitializeVisuals(mode, hero, a).tier]
    /\ UNCHANGED <<view, agents, timers, ws, containerDestroyed, mode, camPos, registry, children, handles, addOrder, tileMap>>

NextVisuals == \E a \in AssetStates : BuildVisuals(a)

SpecVisuals == InitVisuals /\ [][NextVisuals]_vars

\* The sprite sheets serve the character: they are loaded and hold a rotation
\* texture for its facing direction and walking frames.
SheetsAvailable(a) ==
    LET sheets == LoadSpriteSheetTextures(mode, a.loader, a.rot, a.walk)
    IN  /\ a.loader /\ a.sheetsLoaded /\ sheets.success
        /\ hero.direction \in sheets.rotationTextures

\* C17: build() shows the sprite sheets when they are available, else the
\* static portrait when it is loaded, else the procedural placeholder.
C17_VisualTiers ==
    probe.asked =>
        probe.tier = IF SheetsAvailable(probe.assets) THEN "sheets"
                     ELSE IF probe.assets.portrait /\ probe.assets.assetsLoaded
                          THEN "portrait"
                     ELSE "placeholder"


\* ------------------------------------------------------------------------
\* Claims on removal and teardown
\* ------------------------------------------------------------------------
\* C19: remove(id) of a registered id returns the entity registered under it
\* and leaves that entity as it was, undestroyed; its container is no longer
\* a child, has(id) is false and every other registration and child stays;
\* remove(id) of an unknown id returns undefined and changes nothing.
C19_Remove ==
    [][\A id \in Ids : Remove(id) =>
          LET o == Get(registry, ents, id)
          IN  /\ probe'.returned = o
              /\ ents' = ents
              /\ ~Has(registry', ents', id)
              /\ \A j \in Ids \ {id} :
                    Get(registry', ents', j) = Get(registry, ents, j)
              /\ o = 0 => registry' = registry /\ children' = children
              /\ o # 0 => /\ ~ents'[o].destroyed
                          /\ o \in SeqSet(children)
                          /\ o \notin SeqSet(children')
                          /\ SeqSet(children') = SeqSet(children) \ {o}
                          /\ Count(registry') = Count(registry) - 1]_vars

\* An entity was returned by remove while another stays registered.
C19_Witness ==
    /\ probe.asked
    /\ probe.returned # 0
    /\ Constructed(probe.returned)
    /\ ents[probe.returned].id = probe.id
    /\ ~ents[probe.returned].destroyed
    /\ probe.returned \notin SeqSet(registry)
    /\ probe.returned \notin SeqSet(children)
    /\ Len(registry) = 1 /\ Len(children) = 1


\* Teardown specification: the entities of a scene are placed, characters
\* walk, and the manager is cleared or destroyed; a destroyed manager is not
\* used again.  Entities leave the registry by clear() and destroy() only.
NextTeardown ==
    \/ \E c \in Classes, g \in PlaceGrids :
          ~containerDestroyed /\ Place(c, g[1], g[2])
    \/ \E o \in Objs, g \in DepthGrids : EntMoveToGrid(o, g[1], g[2])
    \/ \E dt \in SceneDeltaMs : Tick(dt)
    \/ ~containerDestroyed /\ Clear
    \/ ~containerDestroyed /\ MgrDestroy

SpecTeardown == InitScene /\ [][NextTeardown]_vars

\* The entities the manager has released by clear() or destroy()
Released == {o \in Objs : Constructed(o) /\ o \notin SeqSet(registry)}

\* C18: every entity released by clear() or destroy() is unregistered, its
\* container is no child of the manager's container and, if it is a
\* character, it receives no tick updates any more; after destroy() the
\* manager's container is destroyed and nothing is registered.
C18_Released ==
    /\ \A o \in Released :
          /\ ~Has(registry, ents, ents[o].id) \/ Get(registry, ents, ents[o].id) # o
          /\ o \notin SeqSet(children)
          /\ ~ents[o].ticking
    /\ Released # {} /\ registry = << >> =>
          Count(registry) = 0 /\ \A id \in Ids : ~Has(registry, ents, id)
    /\ containerDestroyed => registry = << >> /\ children = << >>


\* ------------------------------------------------------------------------
\* Claim on the state setter
\* ------------------------------------------------------------------------
Overlays == {"thinking", "speaking", "idle"}

\* C20: assigning thinking, speaking or idle leaves the screen position, the
\* grid position, the facing direction and the tween as they are; and a tick
\* advances an active tween of a character in any state exactly as it
\* advances that of the same character walking: the same position, facing,
\* tween and resolved handle, and on completion the same character.
C20_StateFrame ==
    [][ /\ \A v \in Overlays : CharSetState(v) =>
              /\ ents'[Hero].x = hero.x /\ ents'[Hero].y = hero.y
              /\ ents'[Hero].gridX = hero.gridX /\ ents'[Hero].gridY = hero.gridY
              /\ ents'[Hero].direction = hero.direction
              /\ ents'[Hero].movement = hero.movement
              /\ handles' = handles
        /\ \A dt \in DeltaMs : (CharTick(dt) /\ hero.movement.active) =>
              LET w == Update(mode, [hero EXCEPT !.state = "walking"], dt)
              IN  /\ ents'[Hero].x = w.e.x /\ ents'[Hero].y = w.e.y
                  /\ ents'[Hero].direction = w.e.direction
                  /\ ents'[Hero].movement = w.e.movement
                  /\ ents'[Hero].zIndex = w.e.zIndex
                  /\ handles' = IF w.resolved = NoHandle THEN handles
                                ELSE [handles EXCEPT ![w.resolved] = @ + 1]
                  /\ ~w.e.movement.active => ents'[Hero] = w.e ]_vars

\* A tween has advanced and is still in progress on a thinking character.
C20_Witness ==
    /\ hero.state = "thinking"
    /\ hero.movement.active
    /\ hero.movement.elapsed > 0
    /\ hero.x # hero.movement.startX
    /\ ~hero.destroyed


\* ------------------------------------------------------------------------
\* Character visuals over time: the sprite, its texture and the texture caches
\* ------------------------------------------------------------------------
\* A load that stores a direction's own texture only.
CacheEntries_NoFallback(m, loader, have) ==
    LET directionsToLoad == IF Iso(m) THEN DIRECTIONS_8 ELSE DIRECTIONS_4
        loaded == IF loader THEN {d \in directionsToLoad : d \in have} ELSE {}
    IN  [d \in loaded |-> d]

\* The cache entries one loop of loadSpriteSheetTextures sets: for each
\* direction loaded, the direction whose texture (or frames) is stored.
CacheEntries(m, loader, have) ==
    LET directionsToLoad == IF Iso(m) THEN DIRECTIONS_8 ELSE DIRECTIONS_4
        loaded == IF loader
                  THEN {d \in directionsToLoad :
                          \/ d \in have
                          \/ Iso(m) /\ DIRECTION_8_TO_4(d) # d
                                    /\ DIRECTION_8_TO_4(d) \in have}
                  ELSE {}
    IN  [d \in loaded |-> IF d \in have THEN d ELSE DIRECTION_8_TO_4(d)]

\* Map.set for every entry of new: the other keys keep their values.
SetAll(old, new) ==
    [d \in DOMAIN old \cup DOMAIN new |-> IF d \in DOMAIN new THEN new[d] ELSE old[d]]

\* Character.build() on a character with visuals v: initializeVisuals adds a
\* new Sprite or a new placeholder to the sprite container; what an earlier
\* build() added stays.  The result is the visuals and usingSpriteSheets;
\* have records what the texture loader held at the last load.
RebuildVisuals(m, e, v, a) ==
    LET called == a.loader /\ a.sheetsLoaded
        rotations == IF called
                     THEN SetAll(v.rotationTextures, CacheEntries(m, a.loader, a.rot))
                     ELSE v.rotationTextures
        walking == IF called
                   THEN SetAll(v.walkingFrames, CacheEntries(m, a.loader, a.walk))
                   ELSE v.walkingFrames
        success == called /\ DOMAIN rotations # {} /\ DOMAIN walking # {}
        v1 == [v EXCEPT !.rotationTextures = rotations, !.walkingFrames = walking,
                        !.have = IF called THEN [rot |-> a.rot, walk |-> a.walk]
                                 ELSE @]
    IN  IF success /\ e.direction \in DOMAIN rotations
        THEN [using |-> TRUE,
              view |-> [v1 EXCEPT !.sprites = @ + 1, !.sprite = v.sprites + 1,
                                  !.texture = <<"rotation", rotations[e.direction], 0>>]]
        ELSE [using |-> success \/ e.usingSpriteSheets,
              view |-> [v1 EXCEPT !.placeholders = @ + 1]]

\* A texture update that never shows walking frames.
UpdateSpriteTexture_RotationOnly(e, v) ==
    IF v.sprite = 0 \/ ~e.usingSpriteSheets THEN v
    ELSE IF e.direction \in DOMAIN v.rotationTextures
    THEN [v EXCEPT !.texture = <<"rotation", v.rotationTextures[e.direction], 0>>]
    ELSE v

\* Character.updateSpriteTexture
UpdateSpriteTexture(e, v) ==
    IF v.sprite = 0 \/ ~e.usingSpriteSheets THEN v
    ELSE IF e.state = "walking"
    THEN IF e.direction \in DOMAIN v.walkingFrames
         THEN [v EXCEPT !.texture = <<"walking", v.walkingFrames[e.direction],
                                     e.currentWalkFrame>>]
         ELSE v
    ELSE IF e.direction \in DOMAIN v.rotationTextures
    THEN [v EXCEPT !.texture = <<"rotation", v.rotationTextures[e.direction], 0>>]
    ELSE v

\* The texture updates of Character.update, in the order of updateMovement:
\* after a change of direction, after an advance of the walking frame, and on
\* completion.
UpdateView(m, e, v, deltaMs) ==
    IF ~e.movement.active THEN v
    ELSE LET mv == e.movement
             e3 == [e EXCEPT !.direction =
                       CalculateDirection(m, e, mv.targetX - mv.startX,
                                          mv.targetY - mv.startY)]
             v1 == IF e3.direction # e.direction THEN UpdateSpriteTexture(e3, v)
                   ELSE v
             e4 == UpdateWalkingAnimation(e3, deltaMs)
             advanced == /\ e3.usingSpriteSheets /\ e3.state = "walking"
                         /\ e3.walkFrameTime + deltaMs >= FrameDuration
             v2 == IF advanced THEN UpdateSpriteTexture(e4, v1) ELSE v1
             done == mv.elapsed + deltaMs >= mv.duration
         IN  IF done THEN UpdateSpriteTexture(CompleteMovement(e4), v2) ELSE v2

\* The states of the assets at a build(): nothing loaded, all sheets, the
\* cardinal sheets only, and sheets without walking frames for the east.
AssetChoices ==
    {[loader |-> FALSE, sheetsLoaded |-> FALSE, assetsLoaded |-> FALSE,
      portrait |-> FALSE, rot |-> {}, walk |-> {}],
     [loader |-> TRUE, sheetsLoaded |-> TRUE, assetsLoaded |-> TRUE,
      portrait |-> TRUE, rot |-> DIRECTIONS_8, walk |-> DIRECTIONS_8],
     [loader |-> TRUE, sheetsLoaded |-> TRUE, assetsLoaded |-> TRUE,
      portrait |-> TRUE, rot |-> DIRECTIONS_4, walk |-> DIRECTIONS_4],
     [loader |-> TRUE, sheetsLoaded |-> TRUE, assetsLoaded |-> TRUE,
      portrait |-> TRUE, rot |-> DIRECTIONS_8, walk |-> {"south", "south-west"}]}

ViewTargets == {<<100, 0>>, <<-100, 100>>}
ViewDeltaMs == {0, 100}
ViewStates == {"thinking", "idle"}
ViewDirections == {"south-west"}

\* history of the view specification: the tick time since the last moveTo
\* (walked), the facing and tick length at the last tick, the direction
\* assigned from outside since the last tick (assigned) and the one that had
\* been assigned when the last tick fired (external).
NoWalk == [asked |-> FALSE, walked |-> 0, ticked |-> FALSE, before |-> "south",
           dt |-> 0, vx |-> 0, vy |-> 0, interrupted |-> FALSE,
           assigned |-> "none", external |-> "none"]

InitView ==
    /\ camPos = [x |-> 0, y |-> 0]
    /\ probe = NoWalk
    /\ registry = << >> /\ children = << >> /\ handles = << >> /\ addOrder = << >>
    /\ tileMap = NoTileMap
    /\ containerDestroyed = FALSE
    /\ view = NoView /\ agents = NoAgents /\ timers = << >> /\ ws = NoSocket
    /\ mode \in Modes
    /\ \E g \in StartGrids :
          ents = [o \in 1..MaxObjs |->
                    IF o = Hero
                    THEN SetScreenPosition(mode,
                             NewCharacter(mode, camPos, "a", g[1], g[2]), 0, 0)
                    ELSE NoEntity]

\* character.build(), called while the character is at rest
ViewBuild(a) ==
    /\ view.sprites + view.placeholders < MaxBuilds
    /\ ~hero.movement.active
    /\ LET r == RebuildVisuals(mode, hero, view, a)
       IN  /\ view' = r.view
           /\ ents' = [ents EXCEPT ![Hero].usingSpriteSheets = r.using]
    /\ UNCHANGED <<mode, camPos, probe, registry, children, handles, addOrder,
                   tileMap, containerDestroyed, agents, timers, ws>>

\* character.moveTo(x, y) on a built character at rest; the promise is
\* dropped.  The texture is not touched.
ViewMoveTo(x, y) ==
    /\ view.sprites + view.placeholders > 0
    /\ ~hero.movement.active
    /\ ents' = [ents EXCEPT ![Hero] = MoveTo(@, x, y, Undefined, Discarded)]
    /\ probe' = [NoWalk EXCEPT !.asked = TRUE, !.vx = x - hero.x, !.vy = y - hero.y]
    /\ UNCHANGED <<mode, camPos, registry, children, handles, addOrder,
                   tileMap, containerDestroyed, view, agents, timers, ws>>

\* One firing of the ticker on a built character with an active tween.
ViewTick(dt) ==
    /\ view.sprites + view.placeholders > 0
    /\ hero.ticking
    /\ hero.movement.active
    /\ ents' = [ents EXCEPT ![Hero] = Update(mode, @, dt).e]
    /\ view' = UpdateView(mode, hero, view, dt)
    /\ probe' = [probe EXCEPT !.walked = @ + dt, !.ticked = TRUE,
                              !.before = hero.direction, !.dt = dt,
                              !.external = probe.assigned, !.assigned = "none"]
    /\ UNCHANGED <<mode, camPos, registry, children, handles, addOrder,
                   tileMap, containerDestroyed, agents, timers, ws>>

\* character.state = v
ViewSetState(v) ==
    /\ view.sprites + view.placeholders > 0
    /\ ents' = [ents EXCEPT ![Hero] = SetState(@, v)]
    /\ view' = UpdateSpriteTexture(SetState(hero, v), view)
    /\ probe' = [probe EXCEPT !.ticked = FALSE, !.interrupted = TRUE]
    /\ UNCHANGED <<mode, camPos, registry, children, handles, addOrder,
                   tileMap, containerDestroyed, agents, timers, ws>>

\* character.direction = d
ViewSetDirection(d) ==
    /\ view.sprites + view.placeholders > 0
    /\ ents' = [ents EXCEPT ![Hero] = SetDirection(@, d)]
    /\ view' = UpdateSpriteTexture(SetDirection(hero, d), view)
    /\ probe' = [probe EXCEPT !.ticked = FALSE, !.assigned = d]
    /\ UNCHANGED <<mode, camPos, registry, children, handles, addOrder,
                   tileMap, containerDestroyed, agents, timers, ws>>

NextView ==
    \/ \E a \in AssetChoices : ViewBuild(a)
    \/ \E t \in ViewTargets : ViewMoveTo(t[1], t[2])
    \/ \E dt \in ViewDeltaMs : ViewTick(dt)
    \/ \E v \in ViewStates : ViewSetState(v)
    \/ \E d \in ViewDirections : ViewSetDirection(d)

SpecView == InitView /\ [][NextView]_vars


\* The displacement of the character in one tick of its tween, up to a
\* positive factor: a positive multiple of (target - start) when the eased
\* progress grows in the tick, and zero when it does not.  The selection of a
\* direction does not depend on a positive factor.
TickDisplacement(e, deltaMs) ==
    LET mv == e.movement
        Left(el) == ((mv.duration - Min(el, mv.duration)) * EaseSteps) \div mv.duration
        grows == (deltaMs > 0) /\ (Left(mv.elapsed + deltaMs) < Left(mv.elapsed))
    IN  IF grows THEN <<mv.targetX - mv.startX, mv.targetY - mv.startY>>
        ELSE <<0, 0>>

\* C21 as stated: after every tick of an active tween the facing direction is
\* the one selected for the character's displacement in that tick, even if
\* another direction was assigned since the previous tick.
C21_TickDisplacement ==
    [][\A dt \in ViewDeltaMs :
          ViewTick(dt) =>
             hero'.direction =
                CalculateDirection(mode, hero, TickDisplacement(hero, dt)[1],
                                   TickDisplacement(hero, dt)[2])]_vars

\* C21 amended: after every tick of an active tween the facing direction is
\* the one selected for the vector from the tween's start to its target,
\* whatever was assigned since the previous tick and however far the
\* character moved in the tick.
C21_TickDirection ==
    [][\A dt \in ViewDeltaMs :
          ViewTick(dt) =>
             hero'.direction =
                CalculateDirection(mode, hero,
                                   hero.movement.targetX - hero.movement.startX,
                                   hero.movement.targetY - hero.movement.startY)]_vars

C21_Witness ==
    /\ probe.asked /\ probe.ticked /\ probe.dt > 0
    /\ probe.external = "south-west"
    /\ probe.before = "south-west"
    /\ hero.direction # "south-west"
    /\ hero.movement.active


\* C22: while the character walks with sprite sheets, after walking time T
\* the walking frame index is floor(T / 150) mod 4, whatever the lengths of
\* the ticks, and lies in 0..3.
C22_FrameCadence ==
    (/\ probe.asked /\ ~probe.interrupted
     /\ hero.usingSpriteSheets
     /\ hero.movement.active /\ hero.state = "walking")
    => /\ hero.currentWalkFrame \in 0..(WALKING_FRAME_COUNT - 1)
       /\ hero.currentWalkFrame =
             (probe.walked \div FrameDuration) % WALKING_FRAME_COUNT


\* The texture updateSpriteTexture selects for e when the caches hold one:
\* the walking frame while walking, the rotation texture otherwise.
HasTexture(e, v) ==
    IF e.state = "walking" THEN e.direction \in DOMAIN v.walkingFrames
    ELSE e.direction \in DOMAIN v.rotationTextures

\* C23: at the end of every tick of a character that uses sprite sheets, the
\* displayed texture is the one for its animation state, facing direction and
\* walking frame index at that moment (whenever the caches hold that texture).
C23_TextureCurrent ==
    [][\A dt \in ViewDeltaMs :
          (/\ ViewTick(dt)
           /\ hero'.usingSpriteSheets /\ view'.sprite # 0
           /\ HasTexture(hero', view'))
          => view'.texture =
                IF hero'.state = "walking"
                THEN <<"walking", view'.walkingFrames[hero'.direction],
                       hero'.currentWalkFrame>>
                ELSE <<"rotation", view'.rotationTextures[hero'.direction], 0>>]_vars


\* C24: once built, and after any further build() calls, assignments and
\* ticks, the character has exactly one set of visuals (one sprite or one
\* placeholder) and at most one sprite in its sprite container.
C24_OneSprite ==
    (view.sprites + view.placeholders > 0)
    => /\ view.sprites + view.placeholders = 1
       /\ view.sprites <= 1


\* The caches hold, for every direction the loader lacked at the last load
\* while it had the mapped cardinal direction, the cardinal's textures.
FallbackCached(v) ==
    \A d \in DIRECTIONS_8 :
       /\ (d \notin v.have.rot /\ DIRECTION_8_TO_4(d) \in v.have.rot)
          => /\ d \in DOMAIN v.rotationTextures
             /\ v.rotationTextures[d] = DIRECTION_8_TO_4(d)
       /\ (d \notin v.have.walk /\ DIRECTION_8_TO_4(d) \in v.have.walk)
          => /\ d \in DOMAIN v.walkingFrames
             /\ v.walkingFrames[d] = DIRECTION_8_TO_4(d)

\* The texture shown after direction d is assigned is the mapped cardinal's
\* when the loader lacked d's and had the cardinal's.
FallbackShown(d) ==
    (/\ ViewSetDirection(d)
     /\ hero.usingSpriteSheets /\ view.sprite # 0)
    => /\ (/\ hero.state # "walking"
           /\ d \notin view.have.rot /\ DIRECTION_8_TO_4(d) \in view.have.rot)
          => view'.texture = <<"rotation", DIRECTION_8_TO_4(d), 0>>
       /\ (/\ hero.state = "walking"
           /\ d \notin view.have.walk /\ DIRECTION_8_TO_4(d) \in view.have.walk)
          => view'.texture = <<"walking", DIRECTION_8_TO_4(d),
                               hero.currentWalkFrame>>

\* C25 as stated: whenever the sheets are loaded, a direction without its
\* own rotation texture or walking frames is served by the textures of the
\* cardinal direction of the 8-to-4 table, if those exist.
C25_Fallback ==
    [][/\ (view'.sprites > 0 => FallbackCached(view'))
       /\ \A d \in ViewDirections : FallbackShown(d)]_vars

\* C25 amended: the same in an isometric build.
C25_FallbackIso ==
    [][Iso(mode) =>
         /\ (view'.sprites > 0 => FallbackCached(view'))
         /\ \A d \in ViewDirections : FallbackShown(d)]_vars

C25_Witness ==
    /\ Iso(mode)
    /\ view.sprite # 0 /\ hero.usingSpriteSheets
    /\ view.have.rot = DIRECTIONS_4
    /\ hero.direction = "south-west"
    /\ view.texture = <<"rotation", "west", 0>>


\* tileMap.setTileAt(gridX, gridY, tileType), with the call recorded.
TileWrite(gridX, gridY, tileType) ==
    /\ probe' = [asked |-> TRUE, gridX |-> gridX, gridY |-> gridY,
                 tileType |-> tileType]
    /\ tileMap' = SetTileAt(tileMap, gridX, gridY, tileType)
    /\ UNCHANGED <<mode, camPos, ents, registry, children, handles, addOrder,
                   containerDestroyed, view, agents, timers, ws>>

NextWrites ==
    \E p \in TilePoints(tileMap), t \in TileTypes : TileWrite(p[1], p[2], t)

SpecWrites == InitTiles /\ [][NextWrites]_vars

\* The positions next to the grid, where getTileAt does not read tileData.
AroundGrid(tm) ==
    {q \in (-1..tm.gridWidth) \X (-1..tm.gridHeight) :
        q[1] \in {-1, tm.gridWidth} \/ q[2] \in {-1, tm.gridHeight}}

\* getTileAt gives the same in old and new at every position but p (row by
\* row off p's row, tile by tile in it), and t at p if p is inside the grid.
OnlyTileChanged(old, new, p, t) ==
    LET inside == /\ p[1] \in 0..(old.gridWidth - 1)
                  /\ p[2] \in 0..(old.gridHeight - 1)
    IN  /\ new.gridWidth = old.gridWidth /\ new.gridHeight = old.gridHeight
        /\ DOMAIN new.tileData = DOMAIN old.tileData
        /\ \A q \in AroundGrid(old) \ {p} :
              GetTileAt(new, q[1], q[2]) = GetTileAt(old, q[1], q[2])
        /\ \A y \in 0..(old.gridHeight - 1) :
              (~inside \/ y # p[2]) => new.tileData[y] = old.tileData[y]
        /\ inside =>
              /\ GetTileAt(new, p[1], p[2]) = t
              /\ \A x \in (0..(old.gridWidth - 1)) \ {p[1]} :
                    GetTileAt(new, x, p[2]) = GetTileAt(old, x, p[2])

\* C26: setTileAt outside the grid changes no tile (and raises nothing);
\* setTileAt(gx, gy, t) inside the grid makes getTileAt(gx, gy) return t and
\* leaves getTileAt unchanged at every other position.
C26_SetTileAt ==
    [][\A p \in TilePoints(tileMap), t \in TileTypes :
          TileWrite(p[1], p[2], t) => OnlyTileChanged(tileMap, tileMap', p, t)]_vars

C26_Witness ==
    /\ probe.asked /\ probe.gridX = 2 /\ probe.tileType = "road_marking"
    /\ tileMap.gridWidth = 3 /\ tileMap.gridHeight >= 2
    /\ tileMap.written = {<<2, tileMap.gridHeight - 1>>}
    /\ GetTileAt(tileMap, 2, tileMap.gridHeight - 1) = "road_marking"
    /\ GetTileAt(tileMap, 0, tileMap.gridHeight - 1) # "road_marking"
    /\ GetTileAt(tileMap, 0, 0) = "grass"


\* ------------------------------------------------------------------------
\* Viewport queries of the camera
\* ------------------------------------------------------------------------
\* A getVisibleBounds that takes the upper edges from the top corners only.
GetVisibleBounds_TopCorners(m, pos) ==
    LET topLeft == ScreenToGrid(m, pos, 0, 0)
        topRight == ScreenToGrid(m, pos, CANVAS_WIDTH, 0)
        bottomLeft == ScreenToGrid(m, pos, 0, CANVAS_HEIGHT)
        padding == 2
    IN  [minX |-> Max(0, Min(topLeft.gridX, bottomLeft.gridX) - padding),
         maxX |-> Min(GRID_WIDTH - 1, Max(topLeft.gridX, topRight.gridX) + padding),
         minY |-> Max(0, Min(topLeft.gridY, topRight.gridY) - padding),
         maxY |-> Min(GRID_HEIGHT - 1, Max(topLeft.gridY, topRight.gridY) + padding)]

\* IsometricCamera.getVisibleBounds
GetVisibleBounds(m, pos) ==
    LET topLeft == ScreenToGrid(m, pos, 0, 0)
        topRight == ScreenToGrid(m, pos, CANVAS_WIDTH, 0)
        bottomLeft == ScreenToGrid(m, pos, 0, CANVAS_HEIGHT)
        bottomRight == ScreenToGrid(m, pos, CANVAS_WIDTH, CANVAS_HEIGHT)
        padding == 2
    IN  [minX |-> Max(0, Min(topLeft.gridX, bottomLeft.gridX) - padding),
         maxX |-> Min(GRID_WIDTH - 1, Max(topRight.gridX, bottomRight.gridX) + padding),
         minY |-> Max(0, Min(topLeft.gridY, topRight.gridY) - padding),
         maxY |-> Min(GRID_HEIGHT - 1, Max(bottomLeft.gridY, bottomRight.gridY) + padding)]

\* IsometricCamera.isVisible
IsVisible(m, pos, gridX, gridY) ==
    LET bounds == GetVisibleBounds(m, pos)
    IN  /\ gridX >= bounds.minX /\ gridX <= bounds.maxX
        /\ gridY >= bounds.minY /\ gridY <= bounds.maxY

CullTargets == CenterTargets \cup {<<GRID_WIDTH \div 2, GRID_HEIGHT \div 2>>,
                                   <<0, GRID_HEIGHT - 1>>, <<GRID_WIDTH - 1, 0>>}

\* camera.getVisibleBounds() and camera.isVisible(gx, gy) for every valid
\* grid position, recorded with the camera position they were asked at.
Cull ==
    /\ probe' = [asked |-> TRUE, pos |-> camPos,
                 bounds |-> GetVisibleBounds(mode, camPos),
                 visible |-> {g \in GridColumns \X GridRows :
                                 IsVisible(mode, camPos, g[1], g[2])}]
    /\ UNCHANGED <<mode, camPos, ents, registry, children, handles, addOrder,
                   tileMap, containerDestroyed, view, agents, timers, ws>>

NextCull ==
    \/ Cull
    \/ \E d \in PanDeltas : Pan(d[1], d[2])
    \/ \E p \in CullTargets : CenterOn(p[1], p[2])

SpecCull == InitCam /\ [][NextCull]_vars

\* The valid grid positions whose projected centre lies in the canvas.
CentreOnCanvas(m, pos) ==
    {g \in GridColumns \X GridRows :
        LET s == GridToScreen(m, pos, g[1], g[2])
        IN  /\ s.x >= 0 /\ s.x <= CANVAS_WIDTH
            /\ s.y >= 0 /\ s.y <= CANVAS_HEIGHT}

\* C27: at any camera position every valid grid position whose projected
\* centre lies inside the canvas is reported visible, and the bounds of
\* getVisibleBounds satisfy 0 <= minX, maxX <= gridWidth - 1, 0 <= minY and
\* maxY <= gridHeight - 1.
C27_CullingSound ==
    (probe.asked /\ "visible" \in DOMAIN probe)
    => /\ CentreOnCanvas(mode, probe.pos) \subseteq probe.visible
       /\ 0 <= probe.bounds.minX /\ probe.bounds.maxX <= GRID_WIDTH - 1
       /\ 0 <= probe.bounds.minY /\ probe.bounds.maxY <= GRID_HEIGHT - 1

C27_Witness ==
    /\ probe.asked /\ "visible" \in DOMAIN probe
    /\ mode = "staggered"
    /\ <<GRID_WIDTH - 1, GRID_HEIGHT - 1>> \in CentreOnCanvas(mode, probe.pos)
    /\ <<GRID_WIDTH - 1, GRID_HEIGHT - 1>> \in probe.visible
    /\ <<0, 0>> \notin probe.visible


\* ------------------------------------------------------------------------
\* The simulation store and the town canvas that follows it
\* ------------------------------------------------------------------------
AgentIds == {"sarah", "craig"}
Locations == {"office", "tonys_pizzeria"}
Null == "null"
MaxTimers == 1      \* pending setTimeout callbacks of the store

\* initial agents of the store
InitialAgents ==
    [id \in AgentIds |->
        [status |-> "idle",
         currentLocation |-> IF id = "sarah" THEN "office" ELSE "craigs_landscaping",
         targetLocation |-> Null, currentMessage |-> Null]]

\* BUILDINGS: the grid position of a building
BuildingGrid(name) ==
    IF name = "office" THEN <<16, 13>>
    ELSE IF name = "tonys_pizzeria" THEN <<13, 13>>
    ELSE <<7, 13>>

\* the object index of an agent's character
CharOf(id) == IF id = "sarah" THEN 1 ELSE 2

\* The agent events of the WebSocket: type, agent and, for agent.moving,
\* movement.to.  Sarah is the agent that is sent walking.
AgentEvents ==
    [type : {"agent.thinking", "agent.speaking", "agent.idle"},
     agent : AgentIds, to : {Null}]
    \cup [type : {"agent.moving"}, agent : {"sarah"}, to : Locations]

\* processEvent: the agents after the event's case
EventAgents(ag, ev) ==
    IF ev.type = "agent.thinking"
    THEN [ag EXCEPT ![ev.agent].status = "thinking",
                    ![ev.agent].currentMessage = "Thinking..."]
    ELSE IF ev.type = "agent.speaking"
    THEN [ag EXCEPT ![ev.agent].status = "speaking",
                    ![ev.agent].currentMessage = "hello"]
    ELSE IF ev.type = "agent.moving"
    THEN [ag EXCEPT ![ev.agent].status = "moving",
                    ![ev.agent].targetLocation = ev.to,
                    ![ev.agent].currentMessage = "Walking to"]
    ELSE [ag EXCEPT ![ev.agent].status = "idle",
                    ![ev.agent].currentMessage = Null]

\* the agents after the callback of timer t: of agent.speaking (message
\* null, status idle) or of agent.moving (setAgentLocation, status idle,
\* message null)
TimerAgents(ag, t) ==
    IF t.kind = "agent.speaking"
    THEN [ag EXCEPT ![t.agent].currentMessage = Null,
                    ![t.agent].status = "idle"]
    ELSE [ag EXCEPT ![t.agent].currentLocation = t.to,
                    ![t.agent].targetLocation = Null,
                    ![t.agent].status = "idle",
                    ![t.agent].currentMessage = Null]

\* TownCanvas' agent state sync effect, run when the store's agents (old)
\* were replaced by ag: every agent's character gets moveToGrid (status
\* moving with a target) or its state assigned.
SyncCharacters(m, pos, old, ag, es) ==
    [o \in DOMAIN es |->
       IF \E id \in AgentIds : CharOf(id) = o
       THEN LET id == CHOOSE i \in AgentIds : CharOf(i) = o
                agent == ag[id]
            IN  IF agent.status = "moving" /\ agent.targetLocation # Null
                THEN MoveToGrid(m, pos, es[o],
                                BuildingGrid(agent.targetLocation)[1],
                                BuildingGrid(agent.targetLocation)[2] + 2,
                                Undefined, Discarded)
                ELSE IF agent.status \in {"thinking", "speaking"}
                THEN SetState(es[o], agent.status)
                ELSE SetState(es[o], "idle")
       ELSE es[o]]

\* the delay of the callback an event schedules; 0 for none
TimerDelay(ev) ==
    IF ev.type = "agent.speaking" THEN 5000
    ELSE IF ev.type = "agent.moving" THEN 2000
    ELSE 0

\* the shipped build: ISOMETRIC_MODE with ISOMETRIC_TYPE "staggered"
StoreModes == {"staggered"}

\* the store and the characters of the town canvas after its first render
InitStore ==
    /\ camPos = [x |-> 0, y |-> 0]
    /\ probe = [asked |-> FALSE]
    /\ registry = << >> /\ children = << >> /\ handles = << >> /\ addOrder = << >>
    /\ tileMap = NoTileMap
    /\ containerDestroyed = FALSE
    /\ view = NoView /\ timers = << >> /\ ws = NoSocket
    /\ agents = InitialAgents
    /\ mode \in StoreModes
    /\ ents = [o \in 1..MaxObjs |->
                 IF \E id \in AgentIds : CharOf(id) = o
                 THEN LET id == CHOOSE i \in AgentIds : CharOf(i) = o
                          g == BuildingGrid(InitialAgents[id].currentLocation)
                      IN  NewCharacter(mode, camPos, id, g[1], g[2] + 2)
                 ELSE NoEntity]

\* store.processEvent(ev) for an agent event, followed by the canvas' effect.
\* A pending timer of the same agent is marked as overtaken (history).
ProcessEvent(ev) ==
    /\ TimerDelay(ev) > 0 => Len(timers) < MaxTimers
    /\ agents' = EventAgents(agents, ev)
    /\ timers' =
          LET marked == [i \in DOMAIN timers |->
                            IF timers[i].agent = ev.agent
                            THEN [timers[i] EXCEPT !.overtaken = TRUE]
                            ELSE timers[i]]
          IN  IF TimerDelay(ev) > 0
              THEN Append(marked, [kind |-> ev.type, agent |-> ev.agent,
                                   to |-> ev.to, left |-> TimerDelay(ev),
                                   overtaken |-> FALSE])
              ELSE marked
    /\ ents' = SyncCharacters(mode, camPos, agents, agents', ents)
    /\ probe' = [asked |-> TRUE, event |-> ev]
    /\ UNCHANGED <<mode, camPos, registry, children, handles, addOrder, tileMap,
                   containerDestroyed, view, ws>>

\* the position in timers of the callback that runs next, 0 if none is due
DueTimer ==
    IF \E i \in DOMAIN timers : timers[i].left = 0
    THEN CHOOSE i \in DOMAIN timers :
            /\ timers[i].left = 0
            /\ \A j \in DOMAIN timers : timers[j].left = 0 => i <= j
    ELSE 0

\* A setTimeout callback of the store runs, followed by the canvas' effect.
FireTimer ==
    /\ DueTimer # 0
    /\ agents' = TimerAgents(agents, timers[DueTimer])
    /\ timers' = [i \in 1..(Len(timers) - 1) |->
                    IF i < DueTimer THEN timers[i] ELSE timers[i + 1]]
    /\ ents' = SyncCharacters(mode, camPos, agents, agents', ents)
    /\ probe' = [asked |-> TRUE, event |-> [type |-> "timer",
                                            agent |-> timers[DueTimer].agent,
                                            to |-> timers[DueTimer].to]]
    /\ UNCHANGED <<mode, camPos, registry, children, handles, addOrder, tileMap,
                   containerDestroyed, view, ws>>

\* One second passes; the callbacks that are due run first.
Elapse ==
    /\ timers # << >>
    /\ DueTimer = 0
    /\ timers' = [i \in DOMAIN timers |-> [timers[i] EXCEPT !.left = @ - 1000]]
    /\ UNCHANGED <<mode, camPos, probe, ents, registry, children, handles,
                   addOrder, tileMap, containerDestroyed, view, agents, ws>>

\* One firing of the ticker: the update callback of every character.
Frame(dt) ==
    /\ \E o \in DOMAIN ents : ents[o].cls = "Character" /\ ents[o].movement.active
    /\ ents' = [o \in DOMAIN ents |->
                  IF ents[o].cls = "Character" /\ ents[o].ticking
                  THEN Update(mode, ents[o], dt).e
                  ELSE ents[o]]
    /\ UNCHANGED <<mode, camPos, probe, registry, children, handles, addOrder,
                   tileMap, containerDestroyed, view, agents, timers, ws>>

FrameMs == {500}

NextStore ==
    \/ \E ev \in AgentEvents : ProcessEvent(ev)
    \/ FireTimer
    \/ Elapse
    \/ \E dt \in FrameMs : Frame(dt)

SpecStore == InitStore /\ [][NextStore]_vars


\* C28: the delayed reset scheduled by an agent.speaking or agent.moving
\* event never overwrites a status, message or location that an event
\* processed after the timer was scheduled has set for that agent.
C28_LatestEventWins ==
    [][(FireTimer /\ timers[DueTimer].overtaken)
       => agents'[timers[DueTimer].agent] = agents[timers[DueTimer].agent]]_vars

\* C29: a store update that is not about agent a (an event about another
\* agent) neither restarts the movement tween of a's character nor replaces
\* its completion handle.
C29_OneTweenPerMove ==
    [][\A ev \in AgentEvents, a \in AgentIds :
          (ProcessEvent(ev) /\ ev.agent # a /\ agents[a].status = "moving")
          => ents'[CharOf(a)].movement = ents[CharOf(a)].movement]_vars


\* ------------------------------------------------------------------------
\* The WebSocket client of the simulation
\* ------------------------------------------------------------------------
MaxSockets == 3     \* WebSocket objects created in one behaviour
maxReconnectAttempts == 10

\* SimulationWebSocket.connect()
Connect(w) ==
    IF w.current # 0 /\ w.sockets[w.current] = "OPEN" THEN w
    ELSE [w EXCEPT !.isManualClose = FALSE,
                   !.sockets = Append(@, "CONNECTING"),
                   !.current = Len(w.sockets) + 1]

\* the application calls client.connect()
WsConnect ==
    /\ Len(ws.sockets) < MaxSockets
    /\ ws' = [Connect(ws) EXCEPT !.disconnected = FALSE]
    /\ UNCHANGED <<mode, camPos, probe, ents, registry, children, handles,
                   addOrder, tileMap, containerDestroyed, view, agents, timers>>

\* the application calls client.disconnect()
WsDisconnect ==
    /\ ws' = [ws EXCEPT !.isManualClose = TRUE,
                        !.sockets = IF ws.current # 0
                                       /\ ws.sockets[ws.current] \in {"CONNECTING", "OPEN"}
                                    THEN [@ EXCEPT ![ws.current] = "CLOSING"]
                                    ELSE @,
                        !.current = 0,
                        !.disconnected = TRUE]
    /\ UNCHANGED <<mode, camPos, probe, ents, registry, children, handles,
                   addOrder, tileMap, containerDestroyed, view, agents, timers>>

\* socket i opens: its onopen handler
SocketOpen(i) ==
    /\ i \in DOMAIN ws.sockets
    /\ ws.sockets[i] = "CONNECTING"
    /\ ws' = [ws EXCEPT !.sockets[i] = "OPEN", !.reconnectAttempts = 0]
    /\ UNCHANGED <<mode, camPos, probe, ents, registry, children, handles,
                   addOrder, tileMap, containerDestroyed, view, agents, timers>>

\* socket i closes (the connection fails, the server closes it, or a close()
\* completes): its onclose handler
SocketClose(i) ==
    /\ i \in DOMAIN ws.sockets
    /\ ws.sockets[i] # "CLOSED"
    /\ LET again == /\ ~ws.isManualClose
                    /\ ws.reconnectAttempts < maxReconnectAttempts
       IN  ws' = [ws EXCEPT !.sockets[i] = "CLOSED",
                            !.reconnectAttempts = IF again THEN @ + 1 ELSE @,
                            !.reconnectTimers = IF again THEN @ + 1 ELSE @]
    /\ UNCHANGED <<mode, camPos, probe, ents, registry, children, handles,
                   addOrder, tileMap, containerDestroyed, view, agents, timers>>

\* a reconnect timer runs: setTimeout(() => this.connect(), delay)
ReconnectTimer ==
    /\ ws.reconnectTimers > 0
    /\ Len(ws.sockets) < MaxSockets
    /\ ws' = [Connect(ws) EXCEPT !.reconnectTimers = @ - 1]
    /\ UNCHANGED <<mode, camPos, probe, ents, registry, children, handles,
                   addOrder, tileMap, containerDestroyed, view, agents, timers>>

InitSocket ==
    /\ camPos = [x |-> 0, y |-> 0]
    /\ probe = [asked |-> FALSE]
    /\ registry = << >> /\ children = << >> /\ handles = << >> /\ addOrder = << >>
    /\ tileMap = NoTileMap
    /\ containerDestroyed = FALSE
    /\ view = NoView /\ agents = NoAgents /\ timers = << >> /\ ws = NoSocket
    /\ mode \in StoreModes
    /\ ents = [o \in 1..MaxObjs |-> NoEntity]

NextSocket ==
    \/ WsConnect
    \/ WsDisconnect
    \/ \E i \in 1..MaxSockets : SocketOpen(i)
    \/ \E i \in 1..MaxSockets : SocketClose(i)
    \/ ReconnectTimer

SpecSocket == InitSocket /\ [][NextSocket]_vars

\* the sockets that are connecting or open
LiveSockets(w) == {i \in DOMAIN w.sockets : w.sockets[i] \in {"CONNECTING", "OPEN"}}

\* C30: after disconnect() no socket is created until the application calls
\* connect() again (a reconnect timer of an earlier close creates none), and
\* at most one socket is connecting or open at any time.
C30_NoReconnectAfterDisconnect ==
    [][/\ (ws.disconnected /\ ws'.disconnected)
          => Len(ws'.sockets) = Len(ws.sockets)
       /\ Cardinality(LiveSockets(ws')) <= 1]_vars

=============================================================================
